---- MODULE Spec2Model ----
(***************************************************************************)
(* A model of blenderlib's extraction library (pylib/animation.py,         *)
(* pylib/dynamic.py, pylib/camera.py) and of the scripts that use it       *)
(* (scripts/export_animation.py, scripts/export_renderings.py,             *)
(* scripts/export_renderings_sv.py, pylib/converter_alex.py): the frame-   *)
(* range sampling loops that move the scene's current frame, the skeleton, *)
(* mesh and skinning-weight extraction, the triangulation, the camera      *)
(* extraction, the loop over the actions and the files it leaves, the      *)
(* order of cursor, anchor, render and camera read in the render loops,    *)
(* and the splits and the kinematic tree of converter_alex.process_one.    *)
(*                                                                         *)
(* The host scene (bpy) is state: its current frame, the armature's active *)
(* action and its frame range, the armature's bones, the mesh's vertex     *)
(* groups, faces, UV layer and modifiers, the group memberships of its     *)
(* vertices, the active object and its mode, the anchor the camera tracks  *)
(* and the camera's world matrix as the host last evaluated it.  The       *)
(* library is given host handles as parameters and trusts whatever they    *)
(* hold, so the scenes drawn here are the ones the handle interface        *)
(* admits.                                                                 *)
(*                                                                         *)
(* Seven specifications: Spec (the library calls), WeightSpec (the weights *)
(* on every small mesh), RenderSpec (the export scripts on an empty output *)
(* directory), RerunSpec (export_renderings.py killed and run again),      *)
(* ConvertSpec (the render calls of process_one), MeshInfoSpec             *)
(* (process_one with --norend on every small armature) and CameraSpec (the *)
(* camera extraction on every small camera).                               *)
(*                                                                         *)
(* Numbers: frame_range holds floats in the host; they are kept in halves  *)
(* of a frame (h stands for h/2) and int() truncates toward zero.  Weights *)
(* are exact rationals <<numerator, denominator>>; <<0, 0>> is 0/0 (NaN)   *)
(* and <<1, 0>> is x/0 (inf), the values numpy's float division yields.    *)
(* float32 rounding is not modelled.  Bone transforms are 4x4 integer      *)
(* matrices: bones of length one along y, the action a quarter turn about  *)
(* z per frame.  An object's world matrix on frame f is written f, the     *)
(* root bone's position on frame f is <<f>>; the camera extrinsics of      *)
(* CameraSpec are 4x4 integer matrices.  The int64 entries of the          *)
(* kinematic tree are held in two limbs of sixteen bits.                   *)
(***************************************************************************)
EXTENDS Integers, Sequences, FiniteSets, TLC

VARIABLES
    frame_current,   \* bpy.context.scene.frame_current
    action,          \* armature.animation_data.action, by its name
    frame_range,     \* armature.animation_data.action.frame_range, in half frames
    bones,           \* armature.data.bones: sequence of [name, parent], parent an index or 0
    vertex_groups,   \* mesh_obj.vertex_groups: sequence of names
    vertices,        \* mesh_obj.data.vertices[i].groups: sequences of [group, weight]
    polygons,        \* mesh_obj.data.polygons: the number of vertices of each face
    uv_layers_active,\* mesh_obj.data.uv_layers.active is not None
    modifiers,       \* what the mesh's modifier stack does to its evaluated vertex count
    world_animated,  \* the objects' matrix_world follows the current frame
    active_object,   \* bpy.context.view_layer.objects.active
    mode,            \* the interaction mode of the active object
    pc,              \* "idle", "loop", "returned", "raised"
    op,              \* the entry point that was called
    fn,              \* the sampling function whose loop is running
    init_frame_id,   \* local of the running sampling function
    frame_start,     \* local
    frame_end,       \* local
    frame_ids,       \* the frames range(frame_start, frame_end + 1) has yet to yield
    matrixs,         \* pose samples appended by the skeleton loops, one per frame
    verts,           \* evaluated-mesh samples appended by the vertex loops
    skeleton,        \* result of the rest-space skeleton extraction
    mesh,            \* result of the rest-space mesh extraction
    weights,         \* result of the skinning-weight extraction
    normalize,       \* the normalize argument of the last weight extraction
    frame_at_call,   \* history: frame_current when the entry point was called
    script,          \* the export script that is run, "none" for a library call
    action_name,     \* the loop variable of the script's main: the action it exports
    files,           \* the files under args.save_dir
    todo,            \* the (frame, camera) views the render loop has yet to make
    anchor_location, \* anchor.location (track_to.location), as authored
    anchor_rotation, \* anchor.rotation_euler, as authored
    camera_matrix_world, \* camera.matrix_world as last evaluated by the host
    camera_data,     \* the camera records written so far, in the order written
    camera,          \* camera_obj and the render settings extract_camera_data reads
    cam_results,     \* what extract_camera_data returned, by opencv_format
    flipped,         \* an extrinsic the axis flip is applied to
    n_flips,         \* how often it was applied
    args,            \* the args of converter_alex.process_one
    ani_fstart,      \* local of process_one, from merge_animations
    ani_fend,        \* local of process_one, from merge_animations
    mesh_info,       \* what extract_mesh_info came to in process_one
    out_split,       \* the out_split of the last call of render_views
    transforms       \* the frame_id entries of transforms_<out_split>.json, by out_split

vars == <<frame_current, action, frame_range, bones, vertex_groups, vertices, polygons,
          uv_layers_active, modifiers, world_animated, active_object, mode, pc, op, fn,
          init_frame_id, frame_start, frame_end, frame_ids, matrixs, verts,
          skeleton, mesh, weights, normalize, frame_at_call, script, action_name, files, todo,
          anchor_location, anchor_rotation, camera_matrix_world, camera_data,
          camera, cam_results, flipped, n_flips,
          args, ani_fstart, ani_fend, mesh_info, out_split, transforms>>

\* The armature and the mesh, apart from the mesh's faces
rig_vars == <<bones, vertex_groups, vertices, uv_layers_active, modifiers, world_animated>>

\* What no function of the library writes
scene_vars == <<action, frame_range, rig_vars>>

\* The export script, its loop variable and its output
script_vars == <<script, action_name, files>>

\* What triangulate_mesh writes
edit_vars == <<polygons, active_object, mode>>

\* What the render loops of the export scripts write
render_vars == <<todo, anchor_location, anchor_rotation, camera_matrix_world, camera_data>>

\* What the camera extraction reads and writes
camera_vars == <<camera, cam_results, flipped, n_flips>>

\* What converter_alex.process_one holds and writes
convert_vars == <<args, ani_fstart, ani_fend, mesh_info, out_split, transforms>>

----------------------------------------------------------------------------
(* Bounds of the model *)

MaxFrame == 3
MaxBones == 2
MaxGroups == 2
MaxMemb == 2

Frames == -1..MaxFrame
HalfFrames == -3..(2 * MaxFrame + 1)
BoneNames == {"a", "b"}
GroupNames == {"a", "b", "x"}
WeightValues == {0, 1, 2}
None == "None"
FaceSizes == {3, 4}
ModifierStacks == {"NONE", "SUBSURF", "BUILD"}

SeqsUpTo(S, n) == UNION {[1..k -> S] : k \in 0..n}

----------------------------------------------------------------------------
(* Python and host primitives *)

\* int(x) of a float x = h/2: truncation toward zero
int(h) == IF h >= 0 THEN h \div 2 ELSE -((-h) \div 2)

\* range(a, b): the integers a, a+1, ..., b-1, empty when b <= a
range(a, b) == [i \in 1..(IF b > a THEN b - a ELSE 0) |-> a + i - 1]

\* collection[name] of a bpy collection: the first item of that name
\* (0 when there is none; the library only looks up names it has just read)
BoneByName(bs, name) ==
    IF \E i \in DOMAIN bs : bs[i].name = name
    THEN CHOOSE i \in DOMAIN bs : bs[i].name = name /\ \A j \in 1..(i-1) : bs[j].name # name
    ELSE 0

\* obj.matrix_world with the cursor on frame: the host evaluates an object's
\* world matrix at the current frame; W_f is written f, and an object whose
\* transform no channel, parent or constraint drives keeps W_0
matrix_world(animated, frame) == IF animated THEN frame ELSE 0

\* The transform of a new object: no location, no rotation
Origin == <<>>

\* d[key] = value of a python dict, a function on its keys
SetItem(d, key, value) == [x \in DOMAIN d \cup {key} |-> IF x = key THEN value ELSE d[x]]

\* {}
EmptyDict == <<>>

\* The camera's world matrix once the host has evaluated the dependency
\* graph: the camera is parented and tracked to the anchor, so it is a
\* function of the anchor's location and rotation as authored at that time
evaluate(location, rotation) == [loc |-> location, rot |-> rotation]

\* len(bm.verts) after bm.from_object(mesh_obj, depsgraph): the vertices of
\* the mesh with its modifiers applied at the frame.  "SUBSURF" stands for a
\* stack that adds vertices, "BUILD" for one whose output grows with the
\* frame (nothing before frame 2)
evaluated_n_verts(n, mods, frame) ==
    CASE mods = "NONE" -> n
      [] mods = "SUBSURF" -> n + 1
      [] mods = "BUILD" -> IF frame < 2 THEN 0 ELSE n

----------------------------------------------------------------------------
(* 4x4 transforms with integer entries, and the host's bone transforms *)

\* A x B of two 4x4 matrices (numpy's @)
MatMul(A, B) ==
    [i \in 1..4 |-> [j \in 1..4 |->
        A[i][1] * B[1][j] + A[i][2] * B[2][j] + A[i][3] * B[3][j] + A[i][4] * B[4][j]]]

\* M @ p of a matrix and a point <<x, y, z, 1>>
Apply(M, p) ==
    [i \in 1..4 |-> M[i][1] * p[1] + M[i][2] * p[2] + M[i][3] * p[3] + M[i][4] * p[4]]

Identity4 == <<<<1, 0, 0, 0>>, <<0, 1, 0, 0>>, <<0, 0, 1, 0>>, <<0, 0, 0, 1>>>>

Translation(x, y, z) == <<<<1, 0, 0, x>>, <<0, 1, 0, y>>, <<0, 0, 1, z>>, <<0, 0, 0, 1>>>>

\* q quarter turns about the z axis
RotZ(q) ==
    CASE q % 4 = 0 -> Identity4
      [] q % 4 = 1 -> <<<<0, -1, 0, 0>>, <<1, 0, 0, 0>>, <<0, 0, 1, 0>>, <<0, 0, 0, 1>>>>
      [] q % 4 = 2 -> <<<<-1, 0, 0, 0>>, <<0, -1, 0, 0>>, <<0, 0, 1, 0>>, <<0, 0, 0, 1>>>>
      [] q % 4 = 3 -> <<<<0, 1, 0, 0>>, <<-1, 0, 0, 0>>, <<0, 0, 1, 0>>, <<0, 0, 0, 1>>>>

\* The matrix W_w of an object's world transform written w: W_0 is the
\* identity, W_w lifts the object by w
WorldTransform(w) == Translation(0, 0, w)

\* The number of ancestors of bone i (k bounds the walk)
RECURSIVE Depth(_, _, _)
Depth(bs, i, k) ==
    IF k = 0 \/ i = 0 THEN 0
    ELSE IF bs[i].parent = 0 THEN 0 ELSE 1 + Depth(bs, bs[i].parent, k - 1)

\* armature.data.bones[i].matrix_local, the rest transform of the bone in
\* armature space: the bones are of length one along y, each with its head
\* on its parent's tail, so a root has its head at (0, 0, 0) and its child at
\* (0, 1, 0)
matrix_local(bs, i) == Translation(0, Depth(bs, i, Len(bs)), 0)

\* armature.pose.bones[i].matrix with the cursor on frame, the posed transform
\* of the bone in armature space: the action holds the rest pose on frame 0
\* and turns the armature's bones a quarter turn about z with every frame
pose_matrix(bs, i, frame) == MatMul(RotZ(frame), matrix_local(bs, i))

\* The head and the tail of a bone in the bone's own space: bone.head is
\* bone.matrix @ BoneHead, bone.tail is bone.matrix @ BoneTail
BoneHead == <<0, 0, 0, 1>>
BoneTail == <<0, 1, 0, 1>>

----------------------------------------------------------------------------
(* float arithmetic on exact rationals <<n, d>>, d >= 0 *)

NaN == <<0, 0>>
Inf == <<1, 0>>
Zero == <<0, 1>>
One == <<1, 1>>

RECURSIVE GCD(_, _)
GCD(a, b) == IF b = 0 THEN a ELSE GCD(b, a % b)

Reduce(q) == IF q[2] = 0 THEN (IF q[1] = 0 THEN NaN ELSE Inf)
             ELSE LET g == GCD(q[1], q[2]) IN <<q[1] \div g, q[2] \div g>>

\* p + q of two non-negative floats
FAdd(p, q) == IF p = NaN \/ q = NaN THEN NaN
              ELSE IF p = Inf \/ q = Inf THEN Inf
              ELSE Reduce(<<p[1] * q[2] + q[1] * p[2], p[2] * q[2]>>)

\* p / q as numpy divides non-negative floats: 0/0 is nan, x/0 is inf, no exception
FDiv(p, q) == IF p = NaN \/ q = NaN THEN NaN
              ELSE IF q = Zero THEN (IF p = Zero THEN NaN ELSE Inf)
              ELSE IF q = Inf THEN (IF p = Inf THEN NaN ELSE Zero)
              ELSE IF p = Inf THEN Inf
              ELSE Reduce(<<p[1] * q[2], p[2] * q[1]>>)

RECURSIVE SumTo(_, _)
SumTo(row, k) == IF k = 0 THEN Zero ELSE FAdd(SumTo(row, k - 1), row[k])

\* row.sum()
RowSum(row) == SumTo(row, Len(row))

----------------------------------------------------------------------------
(* animation.extract_skeleton_data(rest_space=True), dynamic.extract_joints' rest loop *)

\* extract_bone_data / extract_rest_joints / extract_pose_joints: the bone is
\* looked up by its name; matrix, tail and head are matrix_world @ the rest
\* (rest_space) or the posed transform, tail and head of that host bone
extract_bone_data(bs, bone_name, rest_space, world, frame) ==
    LET bone == BoneByName(bs, bone_name)
        matrix == MatMul(WorldTransform(world),
                         IF rest_space THEN matrix_local(bs, bone)
                         ELSE pose_matrix(bs, bone, frame))
    IN [world |-> world, bone |-> bone, matrix |-> matrix,
        tail |-> Apply(matrix, BoneTail), head |-> Apply(matrix, BoneHead)]

bname_parent(bs, i) == IF bs[i].parent = 0 THEN None ELSE bs[bs[i].parent].name

\* One entry per host bone, in the host's declaration order, unchecked
extract_skeleton_rest(bs, world) ==
    [bnames        |-> [i \in DOMAIN bs |-> bs[i].name],
     bnames_parent |-> [i \in DOMAIN bs |-> bname_parent(bs, i)],
     matrixs       |-> [i \in DOMAIN bs |-> extract_bone_data(bs, bs[i].name, TRUE, world, 0)]]

\* The bones read in one iteration of a pose loop, at the frame the cursor is on
PoseSample(bs, cur, animated) ==
    [frame |-> cur,
     bones |-> [i \in DOMAIN bs |->
                   extract_bone_data(bs, bs[i].name, FALSE, matrix_world(animated, cur), cur)]]

\* The evaluated mesh read in one iteration of a vertex loop: one row per
\* vertex of the evaluated mesh, each mesh_obj.matrix_world @ v.co
VertsSample(cur, n, mods, animated) ==
    [frame |-> cur, n_verts |-> evaluated_n_verts(n, mods, cur),
     world |-> matrix_world(animated, cur)]

----------------------------------------------------------------------------
(* animation.triangulate_mesh, animation.extract_mesh_data, dynamic.extract_rest_verts *)

RECURSIVE SumSeq(_, _)
SumSeq(q, k) == IF k = 0 THEN 0 ELSE SumSeq(q, k - 1) + q[k]

\* Mutant: the faces are left as they are
triangulate_skipped(polys) == polys

\* bmesh.ops.triangulate(bm, faces=bm.faces[:]): a face of k vertices becomes
\* k - 2 triangles; no vertex is added
triangulate(polys) == [i \in 1..(SumSeq(polys, Len(polys)) - 2 * Len(polys)) |-> 3]

\* np.array(verts) of the frames' vertex lists: an array when the lists have
\* one length, otherwise an exception (from np.array or from .astype)
Homogeneous(rows) == \A i, j \in DOMAIN rows : rows[i].n_verts = rows[j].n_verts

NoMesh == [n_verts |-> 0, world |-> 0, faces |-> <<>>, faces_uvs |-> <<>>, n_verts_uvs |-> 0]

\* extract_mesh_data raises: uv_layers.active is None (AttributeError on
\* .data), or the faces have different sizes (ValueError of numpy)
extract_mesh_data_raises(polys, uv) ==
    \/ ~uv
    \/ \E i, j \in DOMAIN polys : polys[i] # polys[j]

\* What extract_mesh_data returns: a row per vertex, a row of poly.vertices
\* and of poly.loop_indices per face, a row per loop of the active UV layer
extract_mesh_data_result(n, polys, world) ==
    [n_verts |-> n, world |-> world, faces |-> polys, faces_uvs |-> polys,
     n_verts_uvs |-> SumSeq(polys, Len(polys))]

----------------------------------------------------------------------------
(* animation.extract_skinning_weights_data, dynamic.extract_skinning_weights *)

\* Mutant: bone_names.find-style lookup, -1 for a missing name, which numpy
\* takes as the last column
vg_to_bone_minus_one(bone_names, vg_name) ==
    IF \E j \in DOMAIN bone_names : bone_names[j] = vg_name
    THEN CHOOSE j \in DOMAIN bone_names :
            bone_names[j] = vg_name /\ \A k \in 1..(j-1) : bone_names[k] # vg_name
    ELSE Len(bone_names)

\* bone_names.index(vg_name) if vg_name in bone_names else None (None is 0)
vg_to_bone(bone_names, vg_name) ==
    IF \E j \in DOMAIN bone_names : bone_names[j] = vg_name
    THEN CHOOSE j \in DOMAIN bone_names :
            bone_names[j] = vg_name /\ \A k \in 1..(j-1) : bone_names[k] # vg_name
    ELSE 0

vg_to_bone_map(bone_names, vg_names) ==
    [g \in DOMAIN vg_names |-> vg_to_bone(bone_names, vg_names[g])]

\* Mutant: weights[i, bone_id] += grp.weight
SetWeightAccumulate(row, bone_id, w) == [row EXCEPT ![bone_id] = FAdd(@, <<w, 1>>)]

\* weights[i, bone_id] = grp.weight
SetWeight(row, bone_id, w) == [row EXCEPT ![bone_id] = <<w, 1>>]

\* for grp in vertices[i].groups: ... ; the first k memberships applied
RECURSIVE RowAfter(_, _, _, _)
RowAfter(n_bones, map, groups, k) ==
    IF k = 0 THEN [j \in 1..n_bones |-> Zero]
    ELSE LET row == RowAfter(n_bones, map, groups, k - 1)
             bone_id == map[groups[k].group]
         IN IF bone_id # 0 THEN SetWeight(row, bone_id, groups[k].weight) ELSE row

\* weights / weights.sum(axis=1, keepdims=True), one row
NormalizeRow(row) == LET s == RowSum(row) IN [j \in DOMAIN row |-> FDiv(row[j], s)]

extract_skinning_weights_data(bs, vgs, vs, norm) ==
    LET bone_names == [i \in DOMAIN bs |-> bs[i].name]
        map == vg_to_bone_map(bone_names, vgs)
        raw == [i \in DOMAIN vs |-> RowAfter(Len(bs), map, vs[i], Len(vs[i]))]
    IN IF norm THEN [i \in DOMAIN raw |-> NormalizeRow(raw[i])] ELSE raw


----------------------------------------------------------------------------
(* camera.extract_camera_data *)

\* mat = np.array([[1, 0, 0, 0], [0, -1, 0, 0], [0, 0, -1, 0], [0, 0, 0, 1]])
mat == <<<<1, 0, 0, 0>>, <<0, -1, 0, 0>>, <<0, 0, -1, 0>>, <<0, 0, 0, 1>>>>

\* Mutant: extrin @ mat, the flip applied to the columns
opencv_flip_columns(extrin) == MatMul(extrin, mat)

\* Mutant: a quarter turn about x in place of the flip
opencv_flip_quarter_turn(extrin) ==
    MatMul(<<<<1, 0, 0, 0>>, <<0, 0, -1, 0>>, <<0, 1, 0, 0>>, <<0, 0, 0, 1>>>>, extrin)

\* extrin = mat @ extrin
opencv_flip(extrin) == MatMul(mat, extrin)

\* p * q of two positive floats
FMul(p, q) == Reduce(<<p[1] * q[1], p[2] * q[2]>>)

\* 0.5 * p
Half(p) == Reduce(<<p[1], 2 * p[2]>>)

\* Mutant: the resolution percentage is left out
camera_intrin_unscaled(render, tan_half) ==
    LET resolution_x == <<render.resolution_x, 1>>
        resolution_y == <<render.resolution_y, 1>>
        fx == FDiv(Half(resolution_x), tan_half)
    IN <<<<fx, Zero, Half(resolution_x)>>,
         <<Zero, FMul(fx, FDiv(resolution_x, resolution_y)), Half(resolution_y)>>,
         <<Zero, Zero, One>>>>

\* The intrinsic matrix; tan_half is np.tan(0.5 * camera_obj.data.angle)
camera_intrin(render, tan_half) ==
    LET resolution_x == Reduce(<<render.resolution_x * render.resolution_percentage, 100>>)
        resolution_y == Reduce(<<render.resolution_y * render.resolution_percentage, 100>>)
        aspect_ratio == FDiv(resolution_x, resolution_y)
        fx == FDiv(Half(resolution_x), tan_half)
        fy == FMul(FDiv(Half(resolution_x), tan_half), aspect_ratio)
        cx == Half(resolution_x)
        cy == Half(resolution_y)
    IN <<<<fx, Zero, cx>>, <<Zero, fy, cy>>, <<Zero, Zero, One>>>>

\* extract_camera_data(camera_obj, opencv_format): intrin, extrin
extract_camera_data(cam, opencv_format) ==
    [intrin |-> camera_intrin(cam.render, cam.tan_half),
     extrin |-> IF opencv_format THEN opencv_flip(cam.matrix_world_inverted)
                ELSE cam.matrix_world_inverted]

DefaultRender == [resolution_x |-> 8, resolution_y |-> 4, resolution_percentage |-> 100]

DefaultCamera ==
    [matrix_world_inverted |-> Identity4, render |-> DefaultRender, tan_half |-> One]

NoResult == [intrin |-> <<>>, extrin |-> <<>>]

\* No camera extraction is running
CameraIdle ==
    /\ camera = DefaultCamera
    /\ cam_results = [flag \in BOOLEAN |-> NoResult]
    /\ flipped = Identity4
    /\ n_flips = 0

----------------------------------------------------------------------------
(* The frame-range sampling functions *)

SkeletonFns == {"extract_skeleton_data", "extract_joints"}
VertsFns == {"extract_verts_data", "extract_verts"}
SamplingFns == SkeletonFns \cup VertsFns

NoSkeleton == [bnames |-> <<>>, bnames_parent |-> <<>>, matrixs |-> <<>>]

\* scene.frame_set(frame): the cursor afterwards
frame_set(frame) == frame

\* Mutant: the reset is left out
reset_frame_missing(init, cur) == cur

\* "reset the frame": bpy.context.scene.frame_set(init_frame_id)
reset_frame(init, cur) == frame_set(init)

\* Mutant: the end frame is left out, range(frame_start, frame_end)
loop_frames_exclusive(start, end) == range(start, end)

\* for frame_id in range(frame_start, frame_end + 1)
loop_frames(start, end) == range(start, end + 1)

\* The first lines of a sampling function: save the cursor, read the action's range
Enter(f, cur) ==
    /\ fn' = f
    /\ init_frame_id' = cur
    /\ frame_start' = int(frame_range[1])
    /\ frame_end' = int(frame_range[2])
    /\ frame_ids' = loop_frames(int(frame_range[1]), int(frame_range[2]))
    /\ pc' = "loop"

\* A direct call of one of the four sampling functions
CallSampling(f) ==
    /\ pc \in {"idle", "returned"}
    /\ op' = f
    /\ frame_at_call' = frame_current
    /\ Enter(f, frame_current)
    /\ matrixs' = <<>>
    /\ verts' = <<>>
    /\ skeleton' = IF f = "extract_joints"
                   THEN extract_skeleton_rest(bones, matrix_world(world_animated, frame_current))
                   ELSE NoSkeleton
    /\ UNCHANGED <<frame_current, scene_vars, edit_vars, mesh, weights, normalize>>
    /\ UNCHANGED <<script_vars, render_vars, camera_vars, convert_vars>>

\* extract_skeleton_data(armature_obj, rest_space=True)
extract_skeleton_data_rest ==
    /\ pc \in {"idle", "returned"}
    /\ op' = "extract_skeleton_data_rest"
    /\ frame_at_call' = frame_current
    /\ skeleton' = extract_skeleton_rest(bones, matrix_world(world_animated, frame_current))
    /\ pc' = "returned"
    /\ matrixs' = <<>>
    /\ verts' = <<>>
    /\ UNCHANGED <<frame_current, scene_vars, edit_vars, fn, init_frame_id, frame_start,
                   frame_end, frame_ids, mesh, weights, normalize>>
    /\ UNCHANGED <<script_vars, render_vars, camera_vars, convert_vars>>

\* triangulate_mesh(mesh_obj): the mesh is made the active object, edited in
\* EDIT mode and left in OBJECT mode
triangulate_mesh ==
    /\ pc \in {"idle", "returned"}
    /\ op' = "triangulate_mesh"
    /\ frame_at_call' = frame_current
    /\ active_object' = "MESH"
    /\ mode' = "OBJECT"
    /\ polygons' = triangulate(polygons)
    /\ pc' = "returned"
    /\ UNCHANGED <<frame_current, scene_vars, fn, init_frame_id, frame_start, frame_end,
                   frame_ids, matrixs, verts, skeleton, mesh, weights, normalize>>
    /\ UNCHANGED <<script_vars, render_vars, camera_vars, convert_vars>>

\* extract_mesh_data(mesh_obj); dynamic.extract_rest_verts is the same code
extract_mesh_data ==
    /\ pc \in {"idle", "returned"}
    /\ op' = "extract_mesh_data"
    /\ frame_at_call' = frame_current
    /\ IF extract_mesh_data_raises(polygons, uv_layers_active)
       THEN pc' = "raised" /\ mesh' = NoMesh
       ELSE /\ pc' = "returned"
            /\ mesh' = extract_mesh_data_result(Len(vertices), polygons,
                                                matrix_world(world_animated, frame_current))
    /\ UNCHANGED <<frame_current, scene_vars, edit_vars, fn, init_frame_id, frame_start,
                   frame_end, frame_ids, matrixs, verts, skeleton, weights, normalize>>
    /\ UNCHANGED <<script_vars, render_vars, camera_vars, convert_vars>>

\* extract_all_data up to the entry of its first sampling loop: the mesh is
\* triangulated in place, then the rest skeleton, the rest mesh (which raises
\* when there is no active UV layer) and the weights are read
extract_all_data ==
    /\ pc \in {"idle", "returned"}
    /\ op' = "extract_all_data"
    /\ frame_at_call' = frame_current
    /\ active_object' = "MESH"
    /\ mode' = "OBJECT"
    /\ polygons' = triangulate(polygons)
    /\ skeleton' = extract_skeleton_rest(bones, matrix_world(world_animated, frame_current))
    /\ matrixs' = <<>>
    /\ verts' = <<>>
    /\ IF extract_mesh_data_raises(polygons', uv_layers_active)
       THEN /\ pc' = "raised"
            /\ mesh' = NoMesh
            /\ UNCHANGED <<fn, init_frame_id, frame_start, frame_end, frame_ids,
                           weights, normalize>>
       ELSE /\ mesh' = extract_mesh_data_result(Len(vertices), polygons',
                                                matrix_world(world_animated, frame_current))
            /\ weights' = extract_skinning_weights_data(bones, vertex_groups, vertices, TRUE)
            /\ normalize' = TRUE
            /\ Enter("extract_skeleton_data", frame_current)
    /\ UNCHANGED <<frame_current, scene_vars>>
    /\ UNCHANGED <<script_vars, render_vars, camera_vars, convert_vars>>

\* One iteration: the cursor is set, then the host is read at the cursor
LoopBody ==
    /\ pc = "loop"
    /\ frame_ids # <<>>
    /\ frame_current' = frame_set(Head(frame_ids))
    /\ frame_ids' = Tail(frame_ids)
    /\ IF fn \in SkeletonFns
       THEN /\ matrixs' = Append(matrixs, PoseSample(bones, frame_current', world_animated))
            /\ verts' = verts
       ELSE /\ verts' = Append(verts, VertsSample(frame_current', Len(vertices), modifiers,
                                                  world_animated))
            /\ matrixs' = matrixs
    /\ UNCHANGED <<scene_vars, edit_vars, pc, op, fn, init_frame_id, frame_start, frame_end,
                   skeleton, mesh, weights, normalize, frame_at_call>>
    /\ UNCHANGED <<script_vars, render_vars, camera_vars, convert_vars>>

\* One iteration in which the host read raises after the cursor was set; no
\* caller catches, so the exception leaves the entry point
LoopBodyRaises ==
    /\ pc = "loop"
    /\ frame_ids # <<>>
    /\ frame_current' = frame_set(Head(frame_ids))
    /\ pc' = "raised"
    /\ UNCHANGED <<scene_vars, edit_vars, op, fn, init_frame_id, frame_start, frame_end,
                   frame_ids, matrixs, verts, skeleton, mesh, weights, normalize,
                   frame_at_call>>
    /\ UNCHANGED <<script_vars, render_vars, camera_vars, convert_vars>>

\* The range is exhausted: the cursor is reset and the function returns; in
\* extract_all_data the skeleton loop is followed by extract_verts_data
LoopExit ==
    /\ pc = "loop"
    /\ frame_ids = <<>>
    /\ fn \in VertsFns => Homogeneous(verts)
    /\ frame_current' = reset_frame(init_frame_id, frame_current)
    /\ IF op = "extract_all_data" /\ fn = "extract_skeleton_data"
       THEN Enter("extract_verts_data", frame_current')
       ELSE /\ pc' = "returned"
            /\ UNCHANGED <<fn, init_frame_id, frame_start, frame_end, frame_ids>>
    /\ UNCHANGED <<scene_vars, edit_vars, op, matrixs, verts, skeleton, mesh, weights,
                   normalize, frame_at_call>>
    /\ UNCHANGED <<script_vars, render_vars, camera_vars, convert_vars>>

\* The range of a vertex loop is exhausted and the frames' vertex lists have
\* different lengths: numpy raises, in np.array(verts) before the cursor is
\* reset or in .astype after it, depending on the numpy build
LoopExitRaises ==
    /\ pc = "loop"
    /\ frame_ids = <<>>
    /\ fn \in VertsFns
    /\ ~Homogeneous(verts)
    /\ frame_current' \in {frame_current, reset_frame(init_frame_id, frame_current)}
    /\ pc' = "raised"
    /\ UNCHANGED <<scene_vars, edit_vars, op, fn, init_frame_id, frame_start, frame_end,
                   frame_ids, matrixs, verts, skeleton, mesh, weights, normalize,
                   frame_at_call>>
    /\ UNCHANGED <<script_vars, render_vars, camera_vars, convert_vars>>

----------------------------------------------------------------------------
(* Scenes *)

Bone(n, p) == [name |-> n, parent |-> p]
Memb(g, w) == [group |-> g, weight |-> w]

RECURSIVE Up(_, _, _)
Up(bs, i, k) == IF k = 0 \/ i = 0 THEN i ELSE Up(bs, bs[i].parent, k - 1)

\* The parent links form a forest
IsForest(bs) == \A i \in DOMAIN bs : Up(bs, i, Len(bs)) = 0

Skeletons ==
    {bs \in UNION {[1..n -> [name : BoneNames, parent : 0..n]] : n \in 0..MaxBones} :
        IsForest(bs)}

DefaultBones == <<Bone("a", 0), Bone("b", 1)>>
DefaultGroups == <<"a", "b">>
\* Four vertices, enough for a face of four
DefaultVertices ==
    <<<<Memb(1, 1)>>, <<Memb(1, 1), Memb(2, 1)>>, <<Memb(2, 1)>>, <<Memb(1, 1)>>>>

ProgramInit ==
    /\ pc = "idle"
    /\ op = "none"
    /\ fn = "none"
    /\ init_frame_id = 0
    /\ frame_start = 0
    /\ frame_end = 0
    /\ frame_ids = <<>>
    /\ matrixs = <<>>
    /\ verts = <<>>
    /\ skeleton = NoSkeleton
    /\ mesh = NoMesh
    /\ weights = <<>>
    /\ normalize = FALSE
    /\ frame_at_call = frame_current
    /\ todo = <<>>
    /\ anchor_location = Origin
    /\ anchor_rotation = Origin
    /\ camera_matrix_world = evaluate(Origin, Origin)
    /\ camera_data = <<>>

\* A mesh of one triangle with an active UV layer and no modifier, nothing
\* animated but the bones; the armature is the active object
DefaultMesh ==
    /\ polygons = <<3>>
    /\ uv_layers_active = TRUE
    /\ modifiers = "NONE"
    /\ world_animated = FALSE
    /\ active_object = "ARMATURE"
    /\ mode = "OBJECT"

\* Every cursor position and every frame range, on one skeleton
FrameInit ==
    /\ frame_current \in Frames
    /\ frame_range \in HalfFrames \X HalfFrames
    /\ bones = DefaultBones
    /\ vertex_groups = DefaultGroups
    /\ vertices = DefaultVertices
    /\ DefaultMesh

\* Every skeleton, on one frame range
SkeletonInit ==
    /\ frame_current = 0
    /\ frame_range = <<2, 5>>
    /\ bones \in Skeletons
    /\ vertex_groups = DefaultGroups
    /\ vertices = DefaultVertices
    /\ DefaultMesh

\* Every mesh: faces of three or four vertices, with or without an active UV
\* layer, every modifier stack, still or animated objects, every selection
MeshInit ==
    /\ frame_current \in {0, 2}
    /\ frame_range = <<2, 5>>
    /\ bones = DefaultBones
    /\ vertex_groups = DefaultGroups
    /\ vertices = DefaultVertices
    /\ polygons \in SeqsUpTo(FaceSizes, 2)
    /\ uv_layers_active \in BOOLEAN
    /\ modifiers \in ModifierStacks
    /\ world_animated \in BOOLEAN
    /\ \/ active_object = "ARMATURE" /\ mode \in {"OBJECT", "POSE"}
       \/ active_object = "MESH" /\ mode = "OBJECT"

\* process_one has not been entered
NotConverting ==
    /\ args = None
    /\ ani_fstart = 0
    /\ ani_fend = 0
    /\ mesh_info = None
    /\ out_split = None
    /\ transforms = EmptyDict

\* A call of the library from no export script, on an armature with one action
NoScript ==
    /\ script = "none"
    /\ action = "Action"
    /\ action_name = None
    /\ files = {}
    /\ NotConverting

Init == (FrameInit \/ SkeletonInit \/ MeshInit) /\ ProgramInit /\ CameraIdle /\ NoScript

Next ==
    \/ \E f \in SamplingFns : CallSampling(f)
    \/ extract_skeleton_data_rest
    \/ triangulate_mesh
    \/ extract_mesh_data
    \/ extract_all_data
    \/ LoopBody
    \/ LoopBodyRaises
    \/ LoopExit
    \/ LoopExitRaises

Spec == Init /\ [][Next]_vars


----------------------------------------------------------------------------
(* Skinning weights on every small mesh and bone list *)

\* extract_skinning_weights_data(armature_obj, mesh_obj, normalize=norm);
\* dynamic.extract_skinning_weights is the same code, line for line
extract_skinning_weights(norm) ==
    /\ pc = "idle"
    /\ op' = "extract_skinning_weights_data"
    /\ weights' = extract_skinning_weights_data(bones, vertex_groups, vertices, norm)
    /\ normalize' = norm
    /\ pc' = "returned"
    /\ frame_at_call' = frame_current
    /\ UNCHANGED <<frame_current, scene_vars, edit_vars, fn, init_frame_id, frame_start,
                   frame_end, frame_ids, matrixs, verts, skeleton, mesh>>
    /\ UNCHANGED <<script_vars, render_vars, camera_vars, convert_vars>>

\* Sequences of at most n memberships in the groups 1..n_groups
Memberships(n_groups, n) == SeqsUpTo([group : 1..n_groups, weight : WeightValues], n)

\* Meshes of one or two vertices with at most MaxMemb memberships in all
Meshes(n_groups) ==
    {<<v>> : v \in Memberships(n_groups, MaxMemb)}
    \cup UNION {{<<v1, v2>> : v1 \in [1..m -> [group : 1..n_groups, weight : WeightValues]],
                              v2 \in Memberships(n_groups, MaxMemb - m)} : m \in 0..MaxMemb}

\* The names of an object's vertex groups are unique in the host
GroupLists == {g \in SeqsUpTo(GroupNames, MaxGroups) : \A i, j \in DOMAIN g : g[i] = g[j] => i = j}

WeightInit ==
    /\ frame_current = 0
    /\ frame_range = <<2, 5>>
    /\ bones \in SeqsUpTo([name : BoneNames, parent : {0}], MaxBones)
    /\ vertex_groups \in GroupLists
    /\ vertices \in Meshes(Len(vertex_groups))
    /\ DefaultMesh
    /\ ProgramInit
    /\ CameraIdle
    /\ NoScript

WeightNext == \E norm \in BOOLEAN : extract_skinning_weights(norm)

WeightSpec == WeightInit /\ [][WeightNext]_vars


----------------------------------------------------------------------------
(* The render loops: main of scripts/export_renderings.py and of             *)
(* scripts/export_renderings_sv.py, render_views of pylib/converter_alex.py  *)

MaxCam == 2
MaxPoses == 2
SvNCam == 4
RootBone == 3

RenderScripts == {"export_renderings", "export_renderings_sv"}

\* bpy.data.actions.keys() of the scenes the scripts are run on
ActionNames == {"Idle_2", "Run", "Walk"}

\* bpy.data.actions[name].frame_range, in half frames
frame_range_of(name) ==
    CASE name = "Idle_2" -> <<2, 5>>
      [] name = "Run" -> <<0, 6>>
      [] name = "Walk" -> <<4, 2>>
ExportScripts == RenderScripts \cup {"export_animation"}
Scripts == ExportScripts \cup {"converter_alex"}

\* armature_obj.matrix_world @ armature_obj.pose.bones[2].head with the cursor
\* on frame: the root bone follows the animation
RootPos(frame) == <<frame>>

\* The rotation given to the anchor for a view: rotation_eulers[cam_idx] in
\* export_renderings; in export_renderings_sv camera 0 turns with the frame
\* and the others are fixed
Euler(s, frame, cam_idx) ==
    IF s = "export_renderings_sv" /\ cam_idx = 0 THEN <<cam_idx, frame>> ELSE <<cam_idx>>

\* for frame_id in range(frame_start, frame_end + 1): for each camera: the
\* views in the order the loops make them; first marks a new frame
export_views(s, start, end, n_cam) ==
    LET frames == loop_frames(start, end)
    IN [k \in 1..(Len(frames) * n_cam) |->
           LET frame_id == frames[((k - 1) \div n_cam) + 1]
               cam_idx == (k - 1) % n_cam
           IN [frame |-> frame_id, cam |-> cam_idx, rot |-> Euler(s, frame_id, cam_idx),
               first |-> cam_idx = 0]]

\* for i in range(n_views) of render_views (f_offset = 0 in every call): the
\* cursor moves on the first view of a pose, unless f_step is 0
render_views_list(n_poses, views_per_pose, f_start, f_end) ==
    LET f_step == (f_end - f_start) \div n_poses
    IN [k \in 1..(n_poses * views_per_pose) |->
           LET pose_id == (k - 1) \div views_per_pose
               view_id == (k - 1) % views_per_pose
           IN [frame |-> IF f_step # 0 THEN f_start + f_step * pose_id ELSE f_start,
               cam |-> <<pose_id, view_id>>, rot |-> <<k - 1>>,
               first |-> f_step # 0 /\ view_id = 0]]

\* Mutant: the index is left out of the camera's name
camera_id_without_index(cam_idx) == <<"cam_", 0, 0, 0>>

\* camera_id = "cam_%03d" % cam_idx, the letters and the three digits
camera_id(cam_idx) == <<"cam_", cam_idx \div 100, (cam_idx \div 10) % 10, cam_idx % 10>>

\* action_names of main: sorted(list(bpy.data.actions.keys())), and
\* ["Idle_2"] in export_renderings_sv
action_names(s) ==
    IF s = "export_renderings_sv" THEN <<"Idle_2">> ELSE <<"Idle_2", "Run", "Walk">>

\* The place of the next action name in the list: the first one when the loop
\* starts, the one after action_name otherwise
NextIndex(s, name) ==
    IF name = None THEN 1
    ELSE 1 + CHOOSE i \in DOMAIN action_names(s) : action_names(s)[i] = name

\* The paths under args.save_dir/obj_name, by their components
CameraJson(name) == <<name, "camera.json">>
MetaData(name) == <<name, "meta_data.npz">>

\* The files a render writes: image/camera_id/frame_id.png in
\* export_renderings, the image slot under cam_xxx in export_renderings_sv
ImagePath(s, name, cam_idx, frame) ==
    IF s = "export_renderings" THEN <<name, "image", camera_id(cam_idx), frame>>
    ELSE <<name, camera_id(cam_idx), "image", frame>>

\* Mutant: the path of camera.json leaves the action's name out
camera_json_exists_for_any(fs, name) == \E other \in ActionNames : CameraJson(other) \in fs

\* os.path.exists(os.path.join(save_dir, "camera.json"))
camera_json_exists(fs, name) == CameraJson(name) \in fs

\* Mutant: the render does not bring the camera up to date
render_without_update(mw, location, rotation) == mw

\* bpy.ops.render.render(write_still=True): the scene is evaluated for the
\* render, which brings camera.matrix_world up to date
render(mw, location, rotation) == evaluate(location, rotation)

\* extract_camera_data(camera, opencv_format): the extrinsic is the inverse of
\* camera.matrix_world as the host holds it at the call, flipped on request
extract_camera_extrin(mw, opencv_format) ==
    [of |-> mw, inverted |-> TRUE, opencv |-> opencv_format]

\* for action_name in action_names: the loop variable takes the next name
\* (after the iteration before, or after a continue)
ForAction ==
    /\ script \in ExportScripts
    /\ \/ pc = "idle" /\ op = "none"
       \/ pc = "idle" /\ op \in {"continue", "savez"}
       \/ pc = "done"
    /\ NextIndex(script, action_name) <= Len(action_names(script))
    /\ action_name' = action_names(script)[NextIndex(script, action_name)]
    /\ op' = "for_action"
    /\ pc' = "idle"
    /\ UNCHANGED <<frame_current, scene_vars, edit_vars, script, files, fn, init_frame_id,
                   frame_start, frame_end, frame_ids, matrixs, verts, skeleton, mesh, weights,
                   normalize, frame_at_call, render_vars>>
    /\ UNCHANGED <<camera_vars, convert_vars>>

\* export_renderings.main: if os.path.exists(.../camera.json): continue
Skip ==
    /\ script = "export_renderings"
    /\ pc = "idle"
    /\ op = "for_action"
    /\ camera_json_exists(files, action_name)
    /\ op' = "continue"
    /\ UNCHANGED <<frame_current, scene_vars, edit_vars, script_vars, pc, fn, init_frame_id,
                   frame_start, frame_end, frame_ids, matrixs, verts, skeleton, mesh, weights,
                   normalize, frame_at_call, render_vars>>
    /\ UNCHANGED <<camera_vars, convert_vars>>

\* export_animation.main: armature_obj.animation_data.action = action
assign_action ==
    /\ script = "export_animation"
    /\ pc = "idle"
    /\ op = "for_action"
    /\ action' = action_name
    /\ frame_range' = frame_range_of(action_name)
    /\ op' = "assign_action"
    /\ UNCHANGED <<frame_current, rig_vars, edit_vars, script_vars, pc, fn, init_frame_id,
                   frame_start, frame_end, frame_ids, matrixs, verts, skeleton, mesh, weights,
                   normalize, frame_at_call, render_vars>>
    /\ UNCHANGED <<camera_vars, convert_vars>>

\* export_animation.main: animation_data = animation.extract_all_data()
ea_extract_all_data ==
    /\ script = "export_animation"
    /\ pc = "idle"
    /\ op = "assign_action"
    /\ extract_all_data

\* export_animation.main: np.savez(.../meta_data.npz, **animation_data)
savez ==
    /\ script = "export_animation"
    /\ pc = "returned"
    /\ op = "extract_all_data"
    /\ files' = files \cup {MetaData(action_name)}
    /\ op' = "savez"
    /\ pc' = "idle"
    /\ UNCHANGED <<frame_current, scene_vars, edit_vars, script, action_name, fn,
                   init_frame_id, frame_start, frame_end, frame_ids, matrixs, verts, skeleton,
                   mesh, weights, normalize, frame_at_call, render_vars>>
    /\ UNCHANGED <<camera_vars, convert_vars>>

\* export_renderings_sv.main: extract_all_data is called first, before the
\* action is assigned
sv_extract_all_data ==
    /\ script = "export_renderings_sv"
    /\ pc = "idle"
    /\ op = "for_action"
    /\ extract_all_data

\* main for one action, from the assignment of the action (in
\* export_renderings_sv after meta_data.npz is saved) and the triangulation
\* to the entry of the render loop; extract_mesh_data raises on a mesh
\* without an active UV layer
main(n_cam) ==
    /\ script \in RenderScripts
    /\ IF script = "export_renderings"
       THEN /\ pc = "idle" /\ op = "for_action" /\ n_cam \in 1..MaxCam
            /\ ~camera_json_exists(files, action_name)
       ELSE pc = "returned" /\ op = "extract_all_data" /\ n_cam = SvNCam
    /\ files' = IF script = "export_renderings_sv"
                THEN files \cup {MetaData(action_name)} ELSE files
    /\ action' = action_name
    /\ frame_range' = frame_range_of(action_name)
    /\ op' = "main"
    /\ frame_at_call' = frame_current
    /\ active_object' = "MESH"
    /\ mode' = "OBJECT"
    /\ polygons' = triangulate(polygons)
    /\ IF extract_mesh_data_raises(polygons', uv_layers_active)
       THEN /\ pc' = "raised"
            /\ mesh' = NoMesh
            /\ UNCHANGED <<frame_start, frame_end, render_vars>>
       ELSE /\ mesh' = extract_mesh_data_result(Len(vertices), polygons',
                                                matrix_world(world_animated, frame_current))
            /\ frame_start' = int(frame_range'[1])
            /\ frame_end' = int(frame_range'[2])
            /\ todo' = export_views(script, frame_start', frame_end', n_cam)
            /\ anchor_location' = Origin
            /\ anchor_rotation' = Origin
            /\ camera_matrix_world' = evaluate(Origin, Origin)
            /\ camera_data' = <<>>
            /\ pc' = "place"
    /\ UNCHANGED <<frame_current, rig_vars, script, action_name, fn, init_frame_id,
                   frame_ids, matrixs, verts, skeleton, weights, normalize>>
    /\ UNCHANGED <<camera_vars, convert_vars>>

\* converter_alex.reset_to_canon(arm_obj)
reset_to_canon ==
    /\ script = "converter_alex"
    /\ pc = "idle"
    /\ op' = "reset_to_canon"
    /\ frame_at_call' = frame_current
    /\ frame_current' = frame_set(0)
    /\ active_object' = "ARMATURE"
    /\ mode' = "OBJECT"
    /\ pc' = "returned"
    /\ UNCHANGED <<scene_vars, polygons, script_vars, fn, init_frame_id, frame_start, frame_end,
                   frame_ids, matrixs, verts, skeleton, mesh, weights, normalize,
                   render_vars>>
    /\ UNCHANGED <<camera_vars, convert_vars>>

\* render_views(n_poses, out_split, f_start, f_end, views_per_pose=...) with
\* n_poses > 0, up to its loop; process_one reaches it after setup_scene,
\* which reads pose.bones[2] and asserts that every face is a triangle
render_views(n_poses, split, f_start, f_end, views_per_pose) ==
    /\ script = "converter_alex"
    /\ pc \in {"returned", "done"}
    /\ n_poses > 0
    /\ out_split' = split
    /\ Len(bones) >= RootBone
    /\ \A i \in DOMAIN polygons : polygons[i] = 3
    /\ op' = "render_views"
    /\ frame_at_call' = frame_current
    /\ frame_start' = f_start
    /\ frame_end' = f_end
    /\ todo' = render_views_list(n_poses, views_per_pose, f_start, f_end)
    /\ frame_current' = IF (f_end - f_start) \div n_poses = 0
                        THEN frame_set(f_start) ELSE frame_current
    /\ camera_matrix_world' = IF (f_end - f_start) \div n_poses = 0
                              THEN evaluate(RootPos(0), Origin) ELSE camera_matrix_world
    /\ anchor_location' = RootPos(0)
    /\ anchor_rotation' = Origin
    /\ camera_data' = <<>>
    /\ pc' = "place"
    /\ UNCHANGED <<scene_vars, edit_vars, script_vars, fn, init_frame_id, frame_ids,
                   matrixs, verts, skeleton, mesh, weights, normalize>>
    /\ UNCHANGED <<camera_vars, args, ani_fstart, ani_fend, mesh_info, transforms>>

\* The placement of one view: on a new frame the cursor is set, which makes
\* the host evaluate the scene with the anchor as it then is; the anchor is
\* then moved to the root bone and turned
Place ==
    /\ pc = "place"
    /\ todo # <<>>
    /\ Len(bones) >= RootBone
    /\ frame_current' = IF Head(todo).first THEN frame_set(Head(todo).frame) ELSE frame_current
    /\ camera_matrix_world' = IF Head(todo).first
                              THEN evaluate(anchor_location, anchor_rotation)
                              ELSE camera_matrix_world
    /\ anchor_location' = IF Head(todo).first \/ script = "converter_alex"
                          THEN RootPos(frame_current') ELSE anchor_location
    /\ anchor_rotation' = Head(todo).rot
    /\ pc' = "render"
    /\ UNCHANGED <<scene_vars, edit_vars, script_vars, op, fn, init_frame_id, frame_start,
                   frame_end, frame_ids, matrixs, verts, skeleton, mesh, weights, normalize,
                   frame_at_call, todo, camera_data>>
    /\ UNCHANGED <<camera_vars, convert_vars>>

\* armature_obj.pose.bones[2] of an armature of fewer than three bones raises
\* IndexError, after the cursor was set
PlaceRaises ==
    /\ pc = "place"
    /\ todo # <<>>
    /\ Len(bones) < RootBone
    /\ frame_current' = frame_set(Head(todo).frame)
    /\ camera_matrix_world' = evaluate(anchor_location, anchor_rotation)
    /\ pc' = "raised"
    /\ UNCHANGED <<scene_vars, edit_vars, script_vars, op, fn, init_frame_id, frame_start,
                   frame_end, frame_ids, matrixs, verts, skeleton, mesh, weights, normalize,
                   frame_at_call, todo, anchor_location, anchor_rotation, camera_data>>
    /\ UNCHANGED <<camera_vars, convert_vars>>

\* bpy.ops.render.render(write_still=True) (_render_single in converter_alex,
\* whose output files are not followed)
RenderStill ==
    /\ pc = "render"
    /\ camera_matrix_world' = render(camera_matrix_world, anchor_location, anchor_rotation)
    /\ files' = IF script \in RenderScripts
                THEN files \cup {ImagePath(script, action_name, Head(todo).cam, Head(todo).frame)}
                ELSE files
    /\ pc' = "read"
    /\ UNCHANGED <<frame_current, scene_vars, edit_vars, script, action_name, op, fn, init_frame_id,
                   frame_start, frame_end, frame_ids, matrixs, verts, skeleton, mesh, weights,
                   normalize, frame_at_call, todo, anchor_location, anchor_rotation,
                   camera_data>>
    /\ UNCHANGED <<camera_vars, convert_vars>>

\* The camera is read and recorded: extract_camera_data(camera,
\* opencv_format=True) in the export scripts, np.array(camera.matrix_world) in
\* converter_alex.  rot is kept with the record to tell the views apart
ReadCamera ==
    /\ pc = "read"
    /\ camera_data' = Append(camera_data,
          [frame |-> Head(todo).frame, cam |-> Head(todo).cam, rot |-> Head(todo).rot,
           extrin |-> IF script = "converter_alex"
                      THEN [of |-> camera_matrix_world, inverted |-> FALSE, opencv |-> FALSE]
                      ELSE extract_camera_extrin(camera_matrix_world, TRUE)])
    /\ todo' = Tail(todo)
    /\ pc' = "place"
    /\ UNCHANGED <<frame_current, scene_vars, edit_vars, script_vars, op, fn, init_frame_id,
                   frame_start, frame_end, frame_ids, matrixs, verts, skeleton, mesh, weights,
                   normalize, frame_at_call, anchor_location, anchor_rotation,
                   camera_matrix_world>>
    /\ UNCHANGED <<camera_vars, convert_vars>>

\* The loop is over: camera.json is written (cam_xxx.json for each camera in
\* export_renderings_sv, transforms_<out_split>.json with the frames list in
\* converter_alex); the file is there from open(..., "w") on
RenderDone ==
    /\ pc = "place"
    /\ todo = <<>>
    /\ files' = CASE script = "export_renderings" -> files \cup {CameraJson(action_name)}
                  [] script = "export_renderings_sv" ->
                        files \cup {<<action_name, camera_id(c), ".json">> : c \in 0..(SvNCam - 1)}
                  [] OTHER -> files
    /\ transforms' = IF script = "converter_alex"
                     THEN SetItem(transforms, out_split,
                                  [k \in DOMAIN camera_data |-> camera_data[k].frame])
                     ELSE transforms
    /\ pc' = "done"
    /\ UNCHANGED <<frame_current, scene_vars, edit_vars, script, action_name, op, fn, init_frame_id,
                   frame_start, frame_end, frame_ids, matrixs, verts, skeleton, mesh, weights,
                   normalize, frame_at_call, render_vars>>
    /\ UNCHANGED <<camera_vars, args, ani_fstart, ani_fend, mesh_info, out_split>>

\* The record stored for a view: {"intrin": ..., "extrin": ...}; the view is
\* kept with it
camera_record(rec) == [frame |-> rec.frame, cam |-> rec.cam, extrin |-> rec.extrin]

\* The camera_data dict of the export scripts after the first n records were
\* stored.  export_renderings: camera_data[frame_id] = {} on a new frame, then
\* camera_data[frame_id][camera_id] = record; export_renderings_sv:
\* camera_data = {camera_id: {} for camera_id in range(n_cam)}, then
\* camera_data[camera_id][frame_id] = record
RECURSIVE camera_json(_, _, _)
camera_json(s, records, n) ==
    IF n = 0
    THEN (IF s = "export_renderings" THEN EmptyDict ELSE [c \in 0..(SvNCam - 1) |-> EmptyDict])
    ELSE LET d == camera_json(s, records, n - 1)
             rec == records[n]
         IN IF s = "export_renderings"
            THEN LET d1 == IF rec.cam = 0 THEN SetItem(d, rec.frame, EmptyDict) ELSE d
                 IN SetItem(d1, rec.frame,
                            SetItem(d1[rec.frame], camera_id(rec.cam), camera_record(rec)))
            ELSE SetItem(d, rec.cam, SetItem(d[rec.cam], rec.frame, camera_record(rec)))

RenderBones == <<Bone("a", 0), Bone("b", 1), Bone("c", 2)>>

RenderInit ==
    /\ script \in Scripts
    /\ action_name = None
    /\ files = {}
    /\ frame_current \in Frames
    /\ action \in ActionNames
    /\ frame_range = frame_range_of(action)
    /\ bones \in {DefaultBones, RenderBones}
    /\ vertex_groups = DefaultGroups
    /\ vertices = DefaultVertices
    /\ polygons \in {<<3>>, <<4>>}
    /\ uv_layers_active \in BOOLEAN
    /\ modifiers \in {"NONE", "BUILD"}
    /\ world_animated = FALSE
    /\ active_object = "ARMATURE"
    /\ mode = "OBJECT"
    /\ ProgramInit
    /\ CameraIdle
    /\ NotConverting

\* The scripts on an empty output directory
RenderNext ==
    \/ ForAction
    \/ assign_action
    \/ ea_extract_all_data
    \/ savez
    \/ sv_extract_all_data
    \/ LoopBody
    \/ LoopBodyRaises
    \/ LoopExit
    \/ LoopExitRaises
    \/ \E n_cam \in (1..MaxCam) \cup {SvNCam} : main(n_cam)
    \/ reset_to_canon
    \/ \E n_poses \in 1..MaxPoses, views_per_pose \in 1..MaxCam, f_start, f_end \in 0..MaxFrame :
          /\ pc = "returned"
          /\ op = "reset_to_canon"
          /\ render_views(n_poses, "train_repose", f_start, f_end, views_per_pose)
    \/ Place
    \/ PlaceRaises
    \/ RenderStill
    \/ ReadCamera
    \/ RenderDone

RenderSpec == RenderInit /\ [][RenderNext]_vars


----------------------------------------------------------------------------
(* export_renderings.py interrupted and run again on its output directory *)

\* The process is killed, at any point of main
Interrupt ==
    /\ script = "export_renderings"
    /\ pc # "killed"
    /\ pc' = "killed"
    /\ UNCHANGED <<frame_current, scene_vars, edit_vars, script_vars, op, fn, init_frame_id,
                   frame_start, frame_end, frame_ids, matrixs, verts, skeleton, mesh, weights,
                   normalize, frame_at_call, render_vars>>
    /\ UNCHANGED <<camera_vars, convert_vars>>

\* The script is run again after it was killed or came to its end: main
\* starts over with the files the runs before have left
Rerun ==
    /\ script = "export_renderings"
    /\ \/ pc = "killed"
       \/ /\ pc \in {"idle", "done"}
          /\ op # "none"
          /\ NextIndex(script, action_name) > Len(action_names(script))
    /\ pc' = "idle"
    /\ op' = "none"
    /\ action_name' = None
    /\ todo' = <<>>
    /\ camera_data' = <<>>
    /\ UNCHANGED <<frame_current, scene_vars, edit_vars, script, files, fn, init_frame_id,
                   frame_start, frame_end, frame_ids, matrixs, verts, skeleton, mesh, weights,
                   normalize, frame_at_call, anchor_location, anchor_rotation,
                   camera_matrix_world>>
    /\ UNCHANGED <<camera_vars, convert_vars>>

\* One scene, every action active at the start, an empty output directory
RerunInit ==
    /\ script = "export_renderings"
    /\ action_name = None
    /\ files = {}
    /\ frame_current \in {0, 2}
    /\ action \in ActionNames
    /\ frame_range = frame_range_of(action)
    /\ bones = RenderBones
    /\ vertex_groups = DefaultGroups
    /\ vertices = DefaultVertices
    /\ DefaultMesh
    /\ ProgramInit
    /\ CameraIdle
    /\ NotConverting

\* args.n_cam is MaxCam in every run
RerunNext ==
    \/ ForAction
    \/ Skip
    \/ \E n_cam \in {MaxCam} : main(n_cam)
    \/ Place
    \/ RenderStill
    \/ ReadCamera
    \/ RenderDone
    \/ Interrupt
    \/ Rerun

RerunSpec == RerunInit /\ [][RerunNext]_vars


----------------------------------------------------------------------------
(* process_one of pylib/converter_alex.py: the splits it renders *)

TrajPoses == 120

\* The model files process_one is run on: the action_frame_end of the
\* armature's active action and of the first strip of each of its NLA tracks,
\* in half frames
Models == {<<>>, <<2>>, <<5>>, <<3, 4>>, <<8>>, <<4, 6>>, <<16>>, <<499>>}

\* The args of the command line that process_one reads for the splits
Args ==
    [n_train_poses : 1..MaxPoses, n_val_poses : 0..MaxPoses, n_test_poses : 1..MaxPoses,
     n_views_per_pose_train : {1, MaxCam}, n_views_per_pose_val : {1},
     n_views_per_pose_test : {1}, norend : {FALSE}]

\* merge_animations(arm_obj): curr_frm = 1, then
\* curr_frm += int(strip.action_frame_end) for the action pushed down and for
\* each track; return 1, curr_frm
RECURSIVE merge_animations(_)
merge_animations(ends) ==
    IF ends = <<>> THEN <<1, 1>>
    ELSE <<1, merge_animations(Tail(ends))[2] + int(Head(ends))>>

\* ani_split1 = ani_fstart + (ani_fend - ani_fstart) // 2
ani_split1(fstart, fend) == fstart + (fend - fstart) \div 2

\* ani_split2 = ani_fstart + 2 * (ani_fend - ani_fstart) // 3
ani_split2(fstart, fend) == fstart + (2 * (fend - fstart)) \div 3

\* The out_split of the calls of render_views, in the order process_one makes
\* them
SplitOrder ==
    <<"train_repose", "val_repose", "val_samepose", "test_traj", "test_repose",
      "test_samepose">>

\* The arguments of the call of render_views for a split
split_call(split, a, fstart, fend) ==
    CASE split = "train_repose" ->
            [n_poses |-> a.n_train_poses, f_start |-> fstart,
             f_end |-> ani_split1(fstart, fend),
             views_per_pose |-> a.n_views_per_pose_train]
      [] split = "val_repose" ->
            [n_poses |-> a.n_val_poses, f_start |-> ani_split1(fstart, fend) + 1,
             f_end |-> ani_split2(fstart, fend),
             views_per_pose |-> a.n_views_per_pose_val]
      [] split = "val_samepose" ->
            [n_poses |-> a.n_train_poses, f_start |-> fstart,
             f_end |-> ani_split1(fstart, fend),
             views_per_pose |-> a.n_views_per_pose_val]
      [] split = "test_traj" ->
            [n_poses |-> TrajPoses, f_start |-> fstart, f_end |-> fend + 1,
             views_per_pose |-> 1]
      [] split = "test_repose" ->
            [n_poses |-> a.n_test_poses, f_start |-> ani_split2(fstart, fend) + 1,
             f_end |-> fend,
             views_per_pose |-> a.n_views_per_pose_test]
      [] split = "test_samepose" ->
            [n_poses |-> a.n_train_poses, f_start |-> fstart,
             f_end |-> ani_split1(fstart, fend),
             views_per_pose |-> a.n_views_per_pose_test]

\* 'helper' in bone.name.lower(), on the names of the armatures below
is_helper(name) == name \in {"Helper_hip", "spine_HELPER", "head_helper", "tail.Helper"}

\* useless_indies = [0, 1] + [i for i, bone in enumerate(bones) if 'helper'
\* in bone.name.lower()], as places in the sequence
useless_indies(bs) == {1, 2} \cup {i \in DOMAIN bs : is_helper(bs[i].name)}

\* bones = [bone for i, bone in enumerate(bones) if i not in useless_indies],
\* by their places in arm_obj.pose.bones
retained(bs) ==
    SelectSeq([i \in 1..Len(bs) |-> i], LAMBDA i : i \notin useless_indies(bs))

\* An index of numpy's int64 in two limbs of sixteen bits, high limb first
Wide(i) == <<i \div 65536, i % 65536>>

\* NO_PARENT = 2**32 - 1
NO_PARENT == <<65535, 65535>>

\* a > b on int64 values in limbs
Greater(a, b) == a[1] > b[1] \/ (a[1] = b[1] /\ a[2] > b[2])

\* bone_name_map.get(name, default) with bone_name_map = {name: i for i, name
\* in enumerate(bone_names)}: the last bone of the name, counted from 0
bone_name_map_get(bs, name, default) ==
    LET kept == retained(bs)
        at == {k \in DOMAIN kept : bs[kept[k]].name = name}
    IN IF at = {} THEN default
       ELSE Wide((CHOOSE k \in at : \A other \in at : other <= k) - 1)

\* find_parent(b)
find_parent(bs, b) ==
    IF b.parent = 0 THEN NO_PARENT
    ELSE bone_name_map_get(bs, bs[b.parent].name, NO_PARENT)

\* kintree_table[0] after kintree_table[0, 0] = NO_PARENT; kintree_table[1]
\* is np.arange(len(bones))
kintree_table(bs) ==
    LET kept == retained(bs)
    IN [k \in DOMAIN kept |-> IF k = 1 THEN NO_PARENT ELSE find_parent(bs, bs[kept[k]])]

\* extract_mesh_info(mesh_obj, arm_obj, verts, faces, out_dir), the skeleton
\* part: kintree_table[0, 0] = ... on an empty table raises IndexError, the
\* assertion (kintree_table[1, 1:] > kintree_table[0, 1:]).all() raises
\* AssertionError, otherwise the table is stored in model.npz
extract_mesh_info(bs) ==
    LET table == kintree_table(bs)
    IN CASE Len(table) = 0 -> [raises |-> "IndexError", kintree_table |-> <<>>]
         [] Len(table) > 0 /\ \E k \in 2..Len(table) : ~Greater(Wide(k - 1), table[k]) ->
               [raises |-> "AssertionError", kintree_table |-> <<>>]
         [] OTHER -> [raises |-> None, kintree_table |-> table]

\* The place in SplitOrder of the call process_one makes next
NextSplit ==
    IF out_split = None THEN 1
    ELSE 1 + CHOOSE i \in DOMAIN SplitOrder : SplitOrder[i] = out_split

\* process_one(args, model_path, out_dir, rng) on a new out_dir, up to the
\* first call of render_views: setup_scene (which resets the armature to its
\* rest pose and asserts triangles), merge_animations, extract_mesh_info,
\* which may raise, the return under --norend, scene.frame_set(0) and the
\* read of pose.bones[2]
process_one(a, model) ==
    /\ script = "converter_alex"
    /\ pc = "idle"
    /\ op = "none"
    /\ Len(bones) >= RootBone
    /\ \A i \in DOMAIN polygons : polygons[i] = 3
    /\ args' = a
    /\ ani_fstart' = merge_animations(model)[1]
    /\ ani_fend' = merge_animations(model)[2]
    /\ mesh_info' = extract_mesh_info(bones)
    /\ out_split' = None
    /\ transforms' = EmptyDict
    /\ frame_at_call' = frame_current
    /\ frame_current' = frame_set(0)
    /\ active_object' = "ARMATURE"
    /\ mode' = "OBJECT"
    /\ op' = "process_one"
    /\ pc' = IF mesh_info'.raises = None THEN "returned" ELSE "raised"
    /\ UNCHANGED <<scene_vars, polygons, script_vars, fn, init_frame_id, frame_start, frame_end,
                   frame_ids, matrixs, verts, skeleton, mesh, weights, normalize,
                   render_vars>>
    /\ UNCHANGED camera_vars

\* The next call of render_views by process_one; with n_poses <= 0 the call
\* returns at once, with no frames list and nothing written
render_split ==
    /\ script = "converter_alex"
    /\ op \in {"process_one", "render_views"}
    /\ pc \in {"returned", "done"}
    /\ ~args.norend
    /\ NextSplit <= Len(SplitOrder)
    /\ LET split == SplitOrder[NextSplit]
           call == split_call(split, args, ani_fstart, ani_fend)
       IN IF call.n_poses > 0
          THEN render_views(call.n_poses, split, call.f_start, call.f_end,
                            call.views_per_pose)
          ELSE /\ out_split' = split
               /\ op' = "render_views"
               /\ pc' = "done"
               /\ todo' = <<>>
               /\ camera_data' = <<>>
               /\ UNCHANGED <<frame_current, scene_vars, edit_vars, script_vars, fn,
                              init_frame_id, frame_start, frame_end, frame_ids, matrixs,
                              verts, skeleton, mesh, weights, normalize, frame_at_call,
                              anchor_location, anchor_rotation, camera_matrix_world>>
               /\ UNCHANGED <<camera_vars, args, ani_fstart, ani_fend, mesh_info, transforms>>

\* One rigged and triangulated model, the cursor away from frame 0
ConvertInit ==
    /\ script = "converter_alex"
    /\ action_name = None
    /\ files = {}
    /\ frame_current = 2
    /\ action = "Idle_2"
    /\ frame_range = frame_range_of(action)
    /\ bones = RenderBones
    /\ vertex_groups = DefaultGroups
    /\ vertices = DefaultVertices
    /\ DefaultMesh
    /\ ProgramInit
    /\ CameraIdle
    /\ NotConverting

ConvertNext ==
    \/ \E a \in Args, model \in Models : process_one(a, model)
    \/ render_split
    \/ Place
    \/ RenderStill
    \/ ReadCamera
    \/ RenderDone

ConvertSpec == ConvertInit /\ [][ConvertNext]_vars


----------------------------------------------------------------------------
(* process_one with --norend on every small armature *)

MaxPoseBones == 5

\* The name of the bone at a place of pose.bones, plain or with 'helper' in it
PlainNames == <<"root", "base", "hip", "spine", "head", "tail">>
HelperNames == <<"root", "base", "Helper_hip", "spine_HELPER", "head_helper", "tail.Helper">>

\* The armatures: a root, a base under it, and up to MaxPoseBones - 2 bones
\* more, each with any parent or none, the links a forest, the names unique
Armatures ==
    {bs \in UNION {{[i \in 1..n |->
                        CASE i = 1 -> Bone("root", 0)
                          [] i = 2 -> Bone("base", 1)
                          [] OTHER -> Bone(IF helper[i] THEN HelperNames[i] ELSE PlainNames[i],
                                           parent[i])] :
                      helper \in [3..n -> BOOLEAN], parent \in [3..n -> 0..n]} :
                    n \in RootBone..MaxPoseBones} :
        IsForest(bs)}

\* The args of a run that stops after the mesh extraction
NoRenderArgs ==
    [n_train_poses |-> 1, n_val_poses |-> 1, n_test_poses |-> 1,
     n_views_per_pose_train |-> 1, n_views_per_pose_val |-> 1,
     n_views_per_pose_test |-> 1, norend |-> TRUE]

MeshInfoInit ==
    /\ script = "converter_alex"
    /\ action_name = None
    /\ files = {}
    /\ frame_current = 2
    /\ action = "Idle_2"
    /\ frame_range = frame_range_of(action)
    /\ bones \in Armatures
    /\ vertex_groups = DefaultGroups
    /\ vertices = DefaultVertices
    /\ DefaultMesh
    /\ ProgramInit
    /\ CameraIdle
    /\ NotConverting

MeshInfoNext == \E model \in {<<5>>} : process_one(NoRenderArgs, model)

MeshInfoSpec == MeshInfoInit /\ [][MeshInfoNext]_vars


----------------------------------------------------------------------------
(* Camera extraction on every small camera *)

MaxFlips == 2

\* A call of extract_camera_data(camera_obj, opencv_format)
ExtractCamera(opencv_format) ==
    /\ pc \in {"idle", "returned"}
    /\ op' = "extract_camera_data"
    /\ frame_at_call' = frame_current
    /\ cam_results' = [cam_results EXCEPT ![opencv_format] =
                          extract_camera_data(camera, opencv_format)]
    /\ pc' = "returned"
    /\ UNCHANGED <<frame_current, scene_vars, edit_vars, fn, init_frame_id, frame_start,
                   frame_end, frame_ids, matrixs, verts, skeleton, mesh, weights, normalize,
                   script_vars, render_vars, camera, flipped, n_flips, convert_vars>>

\* The axis flip of extract_camera_data applied to an extrinsic once more
OpencvFlip ==
    /\ n_flips < MaxFlips
    /\ flipped' = opencv_flip(flipped)
    /\ n_flips' = n_flips + 1
    /\ UNCHANGED <<frame_current, scene_vars, edit_vars, pc, op, fn, init_frame_id,
                   frame_start, frame_end, frame_ids, matrixs, verts, skeleton, mesh, weights,
                   normalize, frame_at_call, script_vars, render_vars, camera, cam_results,
                   convert_vars>>

\* The rows the 4x4 matrices are made of
MatrixRows == {<<1, 0, 0, 2>>, <<0, -1, 1, 0>>, <<2, 1, 0, -1>>, <<0, 0, 0, 1>>}

Renders ==
    [resolution_x : {4, 8, 512}, resolution_y : {4, 6, 512}, resolution_percentage : {50, 100}]

\* Every matrix on one render setting, and every render setting on one matrix
CameraInit ==
    /\ \/ /\ camera \in [matrix_world_inverted : [1..4 -> MatrixRows],
                         render : {DefaultRender}, tan_half : {One}]
       \/ /\ camera \in [matrix_world_inverted : {[i \in 1..4 |-> <<2, 1, 0, -1>>]},
                         render : Renders, tan_half : {One, <<1, 2>>}]
    /\ cam_results = [flag \in BOOLEAN |-> NoResult]
    /\ flipped = camera.matrix_world_inverted
    /\ n_flips = 0
    /\ frame_current = 0
    /\ frame_range = <<2, 5>>
    /\ bones = DefaultBones
    /\ vertex_groups = DefaultGroups
    /\ vertices = DefaultVertices
    /\ DefaultMesh
    /\ ProgramInit
    /\ NoScript

CameraNext ==
    \/ \E opencv_format \in BOOLEAN : ExtractCamera(opencv_format)
    \/ OpencvFlip

CameraSpec == CameraInit /\ [][CameraNext]_vars


----------------------------------------------------------------------------
(* The frame cursor: C1 - C4 *)

SamplingOps == SamplingFns \cup {"extract_all_data"}

\* The number of integer frames in [frame_start, frame_end]
NFrames == IF frame_end >= frame_start THEN frame_end - frame_start + 1 ELSE 0

\* C1: after a sampling call that raises mid-range (after the cursor was moved
\* to a frame of the range), the current frame equals its value before the call.
C1_RestoredAfterRaise ==
    (pc = "raised" /\ op \in SamplingOps) => frame_current = frame_at_call

\* C2: when a sampling call (or extract_all_data, which chains two) returns
\* normally, the current frame equals the value it had on entry, whatever the
\* initial frame and the range are.
C2_RestoredOnReturn ==
    (pc = "returned" /\ op \in SamplingOps) => frame_current = frame_at_call

\* extract_all_data has returned after moving the cursor through a range that
\* does not hold the frame the cursor was on
C2_Witness ==
    /\ pc = "returned"
    /\ op = "extract_all_data"
    /\ frame_at_call \notin frame_start..frame_end
    /\ Len(matrixs) >= 2
    /\ Len(verts) >= 2

\* The samples of the list a function fills were read with the cursor on
\* frame_start, frame_start + 1, ... in this order
InFrameOrder(out) == \A k \in 1..Len(out) : out[k].frame = frame_start + k - 1

\* C3: a sampling call visits every integer frame of [frame_start, frame_end]
\* exactly once, in increasing order; each sample is read with the cursor on
\* its frame; entry k of the output (counting from 0) belongs to frame_start + k.
C3_EveryFrameOnceInOrder ==
    (op \in SamplingOps) =>
        /\ InFrameOrder(matrixs)
        /\ InFrameOrder(verts)
        /\ pc = "loop" =>
              /\ Len(IF fn \in SkeletonFns THEN matrixs ELSE verts) + Len(frame_ids) = NFrames
              /\ (frame_ids # <<>> /\ NFrames > 0) =>
                     Head(frame_ids) = frame_end - Len(frame_ids) + 1
        /\ pc = "returned" =>
              /\ op \in SkeletonFns \cup {"extract_all_data"} => Len(matrixs) = NFrames
              /\ op \in VertsFns \cup {"extract_all_data"} => Len(verts) = NFrames

\* A call has returned three samples taken away from the frame the cursor was on
C3_Witness ==
    /\ pc = "returned"
    /\ op = "extract_verts_data"
    /\ Len(verts) = 3
    /\ verts[3].frame # frame_at_call
    /\ frame_start < 0

\* C4: a sampling call whose range has end < start fails with InvalidRangeError;
\* it never returns a result for such a range.
C4_InvalidRangeNeverReturns ==
    (pc = "returned" /\ op \in SamplingOps) => frame_end >= frame_start

----------------------------------------------------------------------------
(* The skeleton: C5, C6 *)

SkeletonOps == {"extract_skeleton_data_rest", "extract_joints", "extract_all_data"}

UniqueNames(names) == \A i, j \in DOMAIN names : names[i] = names[j] => i = j

\* C5: in every skeleton returned, each bone with a parent has its parent at a
\* strictly smaller index (a host order with a bone before its parent is
\* refused with TopologyError, never returned).  Stated for the skeletons
\* whose names are unique, where a name denotes one index.
C5_ParentBeforeChild ==
    (pc = "returned" /\ op \in SkeletonOps /\ UniqueNames(skeleton.bnames)) =>
        \A i \in DOMAIN skeleton.bnames :
            skeleton.bnames_parent[i] # None =>
                \E j \in 1..(i - 1) : skeleton.bnames[j] = skeleton.bnames_parent[i]

\* C6: a skeleton in which two bones share a name is never returned, nor used
\* for the weight map of extract_all_data (DuplicateBoneNameError instead).
C6_UniqueBoneNames ==
    (pc = "returned" /\ op \in SkeletonOps) => UniqueNames(skeleton.bnames)


----------------------------------------------------------------------------
(* Skinning weights: C7 - C10 *)

WeightsReturned == pc = "returned" /\ op = "extract_skinning_weights_data"

\* The memberships of vertex i whose group carries the name of bone j, bone j
\* being the first bone of that name
Resolving(i, j) ==
    {k \in DOMAIN vertices[i] :
        /\ vertex_groups[vertices[i][k].group] = bones[j].name
        /\ \A h \in 1..(j - 1) : bones[h].name # bones[j].name}

Matched(i, k) == \E j \in DOMAIN bones : bones[j].name = vertex_groups[vertices[i][k].group]

RECURSIVE SumWeights(_, _)
SumWeights(i, ks) ==
    IF ks = {} THEN 0
    ELSE LET k == CHOOSE x \in ks : TRUE IN vertices[i][k].weight + SumWeights(i, ks \ {k})

Max(S) == CHOOSE x \in S : \A y \in S : y <= x

\* The matrix before normalisation when equal targets are summed
Accumulated(i, j) == <<SumWeights(i, Resolving(i, j)), 1>>

\* The matrix before normalisation when the last membership wins
LastWritten(i, j) ==
    IF Resolving(i, j) = {} THEN Zero ELSE <<vertices[i][Max(Resolving(i, j))].weight, 1>>

\* C7: with normalize, a row whose sum is zero is left all-zero: no division by
\* zero, no NaN in the result.
C7_ZeroRowsStayZero ==
    (WeightsReturned /\ normalize) =>
        \A i \in DOMAIN weights :
            /\ \A j \in DOMAIN weights[i] : weights[i][j] \notin {NaN, Inf}
            /\ (\A j \in DOMAIN bones : LastWritten(i, j) = Zero) =>
                   \A j \in DOMAIN weights[i] : weights[i][j] = Zero

\* C8: with normalize, every row sums to 0 or to 1, and to 1 when a matched
\* group has a non-zero weight on the vertex.
C8_RowSumsZeroOrOne ==
    (WeightsReturned /\ normalize) =>
        \A i \in DOMAIN weights :
            /\ RowSum(weights[i]) \in {Zero, One}
            /\ (\E k \in DOMAIN vertices[i] : Matched(i, k) /\ vertices[i][k].weight # 0) =>
                   RowSum(weights[i]) = One

RECURSIVE MatchedOnly(_, _)
MatchedOnly(i, k) ==
    IF k = 0 THEN <<>>
    ELSE IF Matched(i, k) THEN Append(MatchedOnly(i, k - 1), vertices[i][k])
    ELSE MatchedOnly(i, k - 1)

\* C10: a vertex group whose name is no bone's name is ignored: each entry of
\* the matrix before normalisation is zero or the weight of a membership whose
\* group has the name of that column's bone, and the result is the one the
\* mesh gives with the unmatched memberships taken away.
C10_UnmatchedGroupsIgnored ==
    WeightsReturned =>
        /\ ~normalize =>
              \A i \in DOMAIN weights : \A j \in DOMAIN weights[i] :
                  \/ weights[i][j] = Zero
                  \/ \E k \in DOMAIN vertices[i] :
                        /\ vertex_groups[vertices[i][k].group] = bones[j].name
                        /\ weights[i][j] = <<vertices[i][k].weight, 1>>
        /\ weights = extract_skinning_weights_data(bones, vertex_groups,
                        [i \in DOMAIN vertices |-> MatchedOnly(i, Len(vertices[i]))],
                        normalize)

\* A vertex is in an unmatched group with a non-zero weight and in a matched
\* one, whose bone is not the last column
C10_Witness ==
    /\ WeightsReturned
    /\ ~normalize
    /\ Len(bones) = 2
    /\ bones[1].name # bones[2].name
    /\ \E i \in DOMAIN vertices : \E k, h \in DOMAIN vertices[i] :
          /\ ~Matched(i, k)
          /\ vertices[i][k].weight # 0
          /\ vertex_groups[vertices[i][h].group] = bones[1].name
          /\ vertices[i][h].weight # 0
          /\ weights[i][1] # Zero
          /\ weights[i][2] = Zero

----------------------------------------------------------------------------
(* The bundle of extract_all_data: C11 *)

AllDataReturned == pc = "returned" /\ op = "extract_all_data"

\* C11: in the bundle extract_all_data returns the bone axis is aligned: every
\* pose frame and every weight row has len(bnames) entries, and index i stands
\* for host bone i in bnames, bnames_parent, rest_matrixs, every pose frame and
\* weight column i (a non-zero entry of column i comes from a group that has
\* the name of bone i).
C11_BoneAxisAligned ==
    AllDataReturned =>
        /\ Len(skeleton.bnames) = Len(bones)
        /\ \A k \in DOMAIN matrixs : Len(matrixs[k].bones) = Len(skeleton.bnames)
        /\ \A v \in DOMAIN weights : Len(weights[v]) = Len(skeleton.bnames)
        /\ \A i \in DOMAIN skeleton.bnames :
              /\ skeleton.bnames[i] = bones[i].name
              /\ skeleton.bnames_parent[i] = bname_parent(bones, i)
              /\ skeleton.matrixs[i].bone = i
              /\ \A k \in DOMAIN matrixs : matrixs[k].bones[i].bone = i
              /\ \A v \in DOMAIN weights :
                    weights[v][i] \notin {Zero, NaN} =>
                        \E m \in DOMAIN vertices[v] :
                            vertex_groups[vertices[v][m].group] = bones[i].name

\* C12: extract_all_data never returns a bundle in which a frame of pose_verts
\* has a vertex count other than rest_verts.shape[0] and lbs_weights.shape[0]
\* (the count of the evaluated mesh is verified against the rest mesh).
C12_PoseVertsMatchRest ==
    AllDataReturned =>
        \A k \in DOMAIN verts :
            /\ verts[k].n_verts = mesh.n_verts
            /\ verts[k].n_verts = Len(weights)

----------------------------------------------------------------------------
(* The render loops: C13, C14 *)

\* What the camera's world matrix is when the host is up to date for the view
\* of a record
Fresh(rec) == evaluate(RootPos(rec.frame), rec.rot)

\* C13: in the render loops, the camera of a (frame, camera) view is read only
\* after the render of that view, with no change of the cursor or of the
\* anchor's location and rotation between the render and the read: when the
\* camera is read the host's matrix is the one of the anchor as it stands on
\* the view's frame, and no recorded extrinsic is stale.
C13_ExtrinsicNeverStale ==
    /\ \A k \in DOMAIN camera_data : camera_data[k].extrin.of = Fresh(camera_data[k])
    /\ pc = "read" =>
          /\ frame_current = Head(todo).frame
          /\ anchor_location = RootPos(frame_current)
          /\ anchor_rotation = Head(todo).rot
          /\ camera_matrix_world = evaluate(anchor_location, anchor_rotation)

\* export_renderings has recorded two cameras on each of two frames, and the
\* cursor was moved between them
C13_Witness ==
    /\ pc = "done"
    /\ script = "export_renderings"
    /\ Len(camera_data) >= 4
    /\ \E j, k \in DOMAIN camera_data :
          /\ camera_data[j].frame # camera_data[k].frame
          /\ camera_data[j].extrin # camera_data[k].extrin
    /\ \E j, k \in DOMAIN camera_data :
          /\ camera_data[j].frame = camera_data[k].frame
          /\ camera_data[j].cam # camera_data[k].cam
          /\ camera_data[j].extrin # camera_data[k].extrin

\* C14: no operation but a scoped sampling call leaves the current frame
\* changed: after the render loop of export_renderings.main or of
\* export_renderings_sv.main, and after converter_alex.reset_to_canon, the
\* current frame is the one it was before the operation.
C14_CursorLeftAsFound ==
    (\/ pc = "done" /\ script \in RenderScripts
     \/ pc = "returned" /\ op = "reset_to_canon") =>
        frame_current = frame_at_call

----------------------------------------------------------------------------
(* The mesh: C15 - C18 *)

\* C15: extract_all_data reads the scene and writes nothing of it: no step of
\* the call changes the mesh's faces, its number of vertices, the active
\* object or the mode.
C15_SceneLeftAsAuthored ==
    [][op' = "extract_all_data" =>
          /\ polygons' = polygons
          /\ Len(vertices') = Len(vertices)
          /\ active_object' = active_object
          /\ mode' = mode]_vars

\* C16: the rest-space extractions are frame-independent: the rest skeleton
\* and the rest mesh extraction leave the current frame where it is, and what
\* they return is what they would return with the cursor on any other frame.
C16_RestExtractionFrameIndependent ==
    /\ (pc = "returned" /\ op = "extract_skeleton_data_rest") =>
          /\ frame_current = frame_at_call
          /\ \A f \in Frames :
                skeleton = extract_skeleton_rest(bones, matrix_world(world_animated, f))
    /\ (pc = "returned" /\ op = "extract_mesh_data") =>
          /\ frame_current = frame_at_call
          /\ \A f \in Frames :
                mesh = extract_mesh_data_result(Len(vertices), polygons,
                                                matrix_world(world_animated, f))

\* C17: the rest pass fails for a missing UV channel only if UV output is
\* requested: main of the export scripts asks extract_mesh_data for the rest
\* vertices alone (rest_verts, _, _, _ = ...), so on a mesh without a UV
\* channel the rest pass returns its vertices and faces and main goes on.
C17_RestPassWithoutUV ==
    (op = "main" /\ ~uv_layers_active) =>
        /\ mesh # NoMesh
        /\ mesh.n_verts = Len(vertices)

\* C18: all faces are triangles before extraction: in extract_all_data and in
\* main of the export scripts the triangulation runs before extract_mesh_data,
\* and the mesh sampler never returns a faces array with a row that is not an
\* index triple (a face of another size makes it fail with TopologyError).
C18_FacesAreTriples ==
    (pc # "raised" /\ op \in {"extract_mesh_data", "extract_all_data", "main"}) =>
        \A i \in DOMAIN mesh.faces : mesh.faces[i] = 3

----------------------------------------------------------------------------
(* The camera: C19, C20 *)

RowSign(r) == IF r \in {2, 3} THEN -1 ELSE 1

\* C19: the extrinsic returned with opencv_format is diag(1,-1,-1,1) times the
\* extrinsic returned without it: rows 1 and 2 (counted from 0) negated, rows
\* 0 and 3 as they are; the intrinsic is the same with and without the flag.
C19_OpencvFlipsRows ==
    (cam_results[TRUE] # NoResult /\ cam_results[FALSE] # NoResult) =>
        /\ cam_results[FALSE].extrin = camera.matrix_world_inverted
        /\ \A r, c \in 1..4 :
              cam_results[TRUE].extrin[r][c] = RowSign(r) * cam_results[FALSE].extrin[r][c]
        /\ cam_results[TRUE].intrin = cam_results[FALSE].intrin

\* Both calls were made on a camera whose extrinsic the flip changes, and
\* changes otherwise than a flip of the columns would
C19_Witness ==
    /\ cam_results[TRUE] # NoResult
    /\ cam_results[FALSE] # NoResult
    /\ cam_results[TRUE].extrin # cam_results[FALSE].extrin
    /\ cam_results[TRUE].extrin # MatMul(cam_results[FALSE].extrin, mat)
    /\ cam_results[TRUE].extrin[2] # cam_results[FALSE].extrin[2]
    /\ cam_results[TRUE].extrin[3] # cam_results[FALSE].extrin[3]

\* C20: the axis flip applied twice gives back the extrinsic it started from,
\* for every 4x4 matrix: diag(1,-1,-1,1) is its own inverse.
C20_FlipTwiceIsIdentity ==
    n_flips % 2 = 0 => flipped = camera.matrix_world_inverted

\* The flip was applied twice to a matrix that one flip changes
C20_Witness ==
    /\ n_flips = 2
    /\ flipped = camera.matrix_world_inverted
    /\ opencv_flip(flipped) # flipped
    /\ flipped[4] # <<0, 0, 0, 1>>

----------------------------------------------------------------------------
(* The camera intrinsics: C21 *)

Positive(q) == q[1] > 0 /\ q[2] > 0

\* C21: for every render resolution and resolution percentage the intrinsic
\* extract_camera_data returns has cx = 0.5 * res_x * pct / 100,
\* cy = 0.5 * res_y * pct / 100 and fy = fx * (res_x / res_y), zeros off these
\* entries and 1 at [2][2]; on a square resolution fx = fy and cx = cy
\* (512 x 512 at 100% gives cx = cy = 256); fx, fy, cx, cy are positive.
C21_IntrinsicEntries ==
    \A flag \in BOOLEAN :
        cam_results[flag] # NoResult =>
            LET K == cam_results[flag].intrin
                r == camera.render
            IN /\ K[1][3] = Reduce(<<r.resolution_x * r.resolution_percentage, 200>>)
               /\ K[2][3] = Reduce(<<r.resolution_y * r.resolution_percentage, 200>>)
               /\ K[2][2] = FMul(K[1][1], Reduce(<<r.resolution_x, r.resolution_y>>))
               /\ K[1][2] = Zero /\ K[2][1] = Zero /\ K[3][1] = Zero /\ K[3][2] = Zero
               /\ K[3][3] = One
               /\ r.resolution_x = r.resolution_y => K[1][1] = K[2][2] /\ K[1][3] = K[2][3]
               /\ r = [resolution_x |-> 512, resolution_y |-> 512, resolution_percentage |-> 100]
                     => K[1][3] = <<256, 1>> /\ K[2][3] = <<256, 1>>
               /\ Positive(K[1][1]) /\ Positive(K[2][2])
               /\ Positive(K[1][3]) /\ Positive(K[2][3])

\* The intrinsic was returned for a resolution that is not square, scaled to
\* 50%, with a field of view for which tan is not 1
C21_Witness ==
    /\ cam_results[TRUE] # NoResult
    /\ camera.render.resolution_x # camera.render.resolution_y
    /\ camera.render.resolution_percentage = 50
    /\ camera.tan_half # One
    /\ cam_results[TRUE].intrin[1][1] # cam_results[TRUE].intrin[2][2]
    /\ cam_results[TRUE].intrin[1][3] # cam_results[TRUE].intrin[2][3]

----------------------------------------------------------------------------
(* The pose matrix convention: C22 *)

\* The calls that return the rest skeleton together with the pose samples
JointsReturned == pc = "returned" /\ op \in {"extract_joints", "extract_all_data"}

\* C22: the pose_matrix of the Pose Sampler is the rest-to-pose delta ("world
\* rest state -> world pose state"): on the rest frame (frame 0 of the action)
\* the pose_matrix of every bone of a 2-bone chain is the identity, and on
\* every frame pose_loc = pose_matrix @ rest_loc for the points given in world
\* rest space (the head and the tail of the bone).
C22_PoseMatrixIsRestToPoseDelta ==
    JointsReturned =>
        \A k \in DOMAIN matrixs : \A i \in DOMAIN matrixs[k].bones :
            LET pose == matrixs[k].bones[i]
                rest == skeleton.matrixs[i]
            IN /\ (matrixs[k].frame = 0 /\ ~world_animated) => pose.matrix = Identity4
               /\ pose.head = Apply(pose.matrix, rest.head)
               /\ pose.tail = Apply(pose.matrix, rest.tail)

----------------------------------------------------------------------------
(* The frames of the bundle: C23 *)

\* C23: in extract_all_data the pose sampler and the deformed mesh sampler
\* cover the same frames: pose_matrixs (with pose_tails and pose_heads) and
\* pose_verts have exactly frame_end - frame_start + 1 entries along the frame
\* axis, and entry k (counted from 0) of each was sampled with the cursor on
\* frame frame_start + k of the active clip.
C23_SameFramesInBothSamplers ==
    AllDataReturned =>
        LET clip_start == int(frame_range[1])
            clip_end == int(frame_range[2])
        IN /\ Len(matrixs) = clip_end - clip_start + 1
           /\ Len(verts) = clip_end - clip_start + 1
           /\ \A k \in DOMAIN matrixs : matrixs[k].frame = clip_start + k - 1
           /\ \A k \in DOMAIN verts : verts[k].frame = clip_start + k - 1

----------------------------------------------------------------------------
(* The camera records: C24 - C26 *)

\* The frames of the render loop
LoopFrames == {f \in Frames : frame_start <= f /\ f <= frame_end}

RECURSIVE SumCard(_, _)
SumCard(d, keys) ==
    IF keys = {} THEN 0
    ELSE LET k == CHOOSE x \in keys : TRUE
         IN Cardinality(DOMAIN d[k]) + SumCard(d, keys \ {k})

\* The dict holds under <<outer key, inner key>> the record of the view
\* (frame, cam), read when the host was up to date for that view
Holds(d, outer, inner, frame, cam) ==
    /\ outer \in DOMAIN d
    /\ inner \in DOMAIN d[outer]
    /\ d[outer][inner].frame = frame
    /\ d[outer][inner].cam = cam
    /\ d[outer][inner].extrin.of = Fresh([frame |-> frame, rot |-> Euler(script, frame, cam)])

\* C24: when an export render loop finishes, the camera data holds exactly one
\* record for every pair (frame of [frame_start, frame_end], camera of the
\* camera set) and none for another pair; export_renderings groups it by frame
\* id then camera id, export_renderings_sv by camera id then frame id, and no
\* record was overwritten by the record of another pair.
C24_OneRecordPerFrameAndCamera ==
    (pc = "done" /\ script \in RenderScripts) =>
        LET d == camera_json(script, camera_data, Len(camera_data))
        IN /\ SumCard(d, DOMAIN d) = Len(camera_data)
           /\ IF script = "export_renderings"
              THEN /\ DOMAIN d = LoopFrames
                   /\ \E n_cam \in 1..MaxCam :
                         /\ Len(camera_data) = n_cam * Cardinality(LoopFrames)
                         /\ \A f \in LoopFrames :
                               /\ DOMAIN d[f] = {camera_id(c) : c \in 0..(n_cam - 1)}
                               /\ \A c \in 0..(n_cam - 1) : Holds(d, f, camera_id(c), f, c)
              ELSE /\ DOMAIN d = 0..(SvNCam - 1)
                   /\ Len(camera_data) = SvNCam * Cardinality(LoopFrames)
                   /\ \A c \in DOMAIN d :
                         /\ DOMAIN d[c] = LoopFrames
                         /\ \A f \in LoopFrames : Holds(d, c, f, f, c)

\* export_renderings has finished two cameras on each of two frames or more
C24_Witness ==
    /\ pc = "done"
    /\ script = "export_renderings"
    /\ Cardinality(LoopFrames) >= 2
    /\ Len(camera_data) = 2 * Cardinality(LoopFrames)
    /\ camera_data[1].frame = camera_data[2].frame
    /\ camera_data[1].cam # camera_data[2].cam

\* C25: in every export script the action is assigned to the armature before
\* the animation data saved under that action's directory is extracted: the
\* meta_data.npz written to save_dir/<obj>/<action_name> is sampled over the
\* frame range and the poses of action_name, not of the action that was
\* active before.
C25_ActionAssignedBeforeExtraction ==
    (script \in {"export_animation", "export_renderings_sv"} /\ AllDataReturned) =>
        /\ action = action_name
        /\ frame_start = int(frame_range_of(action_name)[1])
        /\ frame_end = int(frame_range_of(action_name)[2])
        /\ \A k \in DOMAIN matrixs : matrixs[k].frame \in frame_start..frame_end
        /\ \A k \in DOMAIN verts : verts[k].frame \in frame_start..frame_end

\* The frames of an action's range
ActionFrames(name) ==
    {f \in Frames : int(frame_range_of(name)[1]) <= f /\ f <= int(frame_range_of(name)[2])}

\* Every (frame, camera) pair of the action has its image under save_dir
AllRendered(name) ==
    \A f \in ActionFrames(name) : \A c \in 0..(MaxCam - 1) :
        ImagePath("export_renderings", name, c, f) \in files

\* C26: export_renderings.main writes an action's camera.json only after every
\* (frame, camera) pair of the action was rendered and recorded, and skips an
\* action whose camera.json exists without a frame change, a render or a new
\* camera; so in a rerun after an interruption at any point no action whose
\* renders are incomplete is skipped.
C26_CameraJsonMarksCompleteAction ==
    /\ [](/\ \A name \in ActionNames : CameraJson(name) \in files => AllRendered(name)
          /\ pc = "done" => Len(camera_data) = MaxCam * Cardinality(ActionFrames(action_name))
          /\ op = "continue" => CameraJson(action_name) \in files /\ AllRendered(action_name)
          /\ (op = "main" /\ pc \in {"place", "render", "read"}) =>
                CameraJson(action_name) \notin files)
    /\ [][op' = "continue" =>
             /\ frame_current' = frame_current
             /\ files' = files
             /\ action' = action
             /\ render_vars' = render_vars]_vars

\* The run was killed while it rendered "Run", after "Idle_2" was finished;
\* the rerun has skipped "Idle_2" and renders "Run" again
C26_Witness ==
    /\ op = "main"
    /\ pc = "read"
    /\ action_name = "Run"
    /\ CameraJson("Idle_2") \in files
    /\ CameraJson("Run") \notin files
    /\ camera_data = <<>>
    /\ \E f \in ActionFrames("Run") : f > Head(todo).frame
          /\ ImagePath("export_renderings", "Run", 0, f) \in files

----------------------------------------------------------------------------
(* The two libraries: C27 *)

\* C27: animation.extract_all_data and the functions of the dynamic module
\* (extract_joints, extract_verts, extract_rest_verts,
\* extract_skinning_weights) agree on one scene state: the bundle has the bone
\* names, parents, rest and pose matrices, posed vertices and weights the
\* dynamic functions compute on that state, the rest vertices and faces are
\* those extract_rest_verts returns on the scene as it is when
\* extract_all_data is called, and the cursor is left where it was.
C27_LibrariesAgree ==
    /\ [](AllDataReturned =>
            /\ skeleton = extract_skeleton_rest(bones, matrix_world(world_animated, frame_at_call))
            /\ matrixs = [k \in 1..NFrames |->
                             PoseSample(bones, frame_start + k - 1, world_animated)]
            /\ verts = [k \in 1..NFrames |->
                           VertsSample(frame_start + k - 1, Len(vertices), modifiers,
                                       world_animated)]
            /\ weights = extract_skinning_weights_data(bones, vertex_groups, vertices, TRUE)
            /\ frame_current = frame_at_call)
    /\ [][(/\ pc \in {"idle", "returned"}
           /\ op' = "extract_all_data"
           /\ pc' = "loop"
           /\ ~extract_mesh_data_raises(polygons, uv_layers_active)) =>
              mesh' = extract_mesh_data_result(Len(vertices), polygons,
                                               matrix_world(world_animated, frame_current))]_vars

----------------------------------------------------------------------------
(* The splits of converter_alex.process_one: C28, C29 *)

\* The frame_id entries written for a split: those of transforms_<split>.json
\* and those the running call of render_views has recorded
Rendered(split) ==
    (IF split \in DOMAIN transforms
     THEN {transforms[split][k] : k \in DOMAIN transforms[split]} ELSE {})
    \cup (IF out_split = split
          THEN {camera_data[k].frame : k \in DOMAIN camera_data} ELSE {})

\* C28: in process_one the frames rendered for train_repose, val_repose and
\* test_repose are pairwise disjoint: train in [ani_fstart, ani_split1], val
\* in [ani_split1 + 1, ani_split2], test in [ani_split2 + 1, ani_fend].
C28_ReposeSplitsDisjoint ==
    (script = "converter_alex" /\ ani_fend > 0) =>
        LET split1 == ani_split1(ani_fstart, ani_fend)
            split2 == ani_split2(ani_fstart, ani_fend)
        IN /\ Rendered("train_repose") \subseteq ani_fstart..split1
           /\ Rendered("val_repose") \subseteq (split1 + 1)..split2
           /\ Rendered("test_repose") \subseteq (split2 + 1)..ani_fend
           /\ Rendered("train_repose") \cap Rendered("val_repose") = {}
           /\ Rendered("train_repose") \cap Rendered("test_repose") = {}
           /\ Rendered("val_repose") \cap Rendered("test_repose") = {}

\* C29: in every call of render_views by process_one, every frame the cursor
\* is set to and every frame_id recorded lies in [f_start, f_end], test_traj
\* with its 120 poses and f_end = ani_fend + 1 and the ranges with f_step = 0
\* included.
C29_FramesWithinCallRange ==
    (script = "converter_alex" /\ ani_fend > 0 /\ op = "render_views") =>
        /\ pc \in {"render", "read"} => frame_current \in frame_start..frame_end
        /\ \A k \in DOMAIN camera_data : camera_data[k].frame \in frame_start..frame_end

----------------------------------------------------------------------------
(* The kinematic tree of converter_alex.extract_mesh_info: C30 *)

\* The place among the retained bones of the bone at place i of pose.bones, 0
\* when it was removed (or i is 0, no bone)
RetainedAt(bs, i) ==
    LET kept == retained(bs)
    IN IF \E k \in DOMAIN kept : kept[k] = i
       THEN CHOOSE k \in DOMAIN kept : kept[k] = i ELSE 0

\* Some retained bone has a retained parent that does not come before it
ParentNotBefore(bs) ==
    \E i \in DOMAIN bs :
        /\ RetainedAt(bs, i) # 0
        /\ RetainedAt(bs, bs[i].parent) # 0
        /\ RetainedAt(bs, bs[i].parent) >= RetainedAt(bs, i)

\* C30: the assertion 'Bones must be topo sorted' of extract_mesh_info fails
\* only when some retained bone's retained parent has a larger or equal
\* index; a retained bone other than the first whose parent is absent or was
\* removed does not trip it.
C30_AssertionOnlyOnParentAfterChild ==
    (script = "converter_alex" /\ op = "process_one") =>
        (mesh_info.raises = "AssertionError" => ParentNotBefore(bones))

====
